---- MODULE Spec2Model ----
(***************************************************************************)
(* The rental / purchase transaction backend of irentstuff-transactions.   *)
(* Four request handlers write the Rentals and Purchases tables and the    *)
(* availability flag of the item catalogue:                                *)
(*   add_rental, add_purchase              (offer creation)                *)
(*   update_rental_status, update_purchase_status   (status transitions)   *)
(* Lambda runs one container per request in flight, so invocations         *)
(* overlap. A handler is a chain of steps: every step is one access of     *)
(* the invocation to what the invocations share (the tables of the store,  *)
(* the catalogue, the websocket), with the local code that follows it up   *)
(* to the next access or to the return. The collaborators (token verifier, *)
(* item catalogue, store, websocket) answer or fail nondeterministically   *)
(* at the point where the code calls them.                                 *)
(***************************************************************************)
EXTENDS Integers, Sequences, FiniteSets, TLC

VARIABLES
    rentals,        \* the Rentals table: the committed rows, by rental_id
    purchases,      \* the Purchases table: the committed rows, by purchase_id
    tables,         \* the tables that exist in the store
    autoIncrement,  \* the id the next INSERT into each table gets
    availability,   \* the item catalogue: item_id -> availability
    inflight,       \* the invocations in flight: where each one stands, the
                    \* locals its later steps use and the row its connection
                    \* has inserted and not committed yet
    response,       \* what the invocation that ended with the last step
                    \* returned; NoReply after a step that ended none
    availWrite,     \* the PATCH the last step sent to the catalogue; NoWrite
                    \* after a step that sent none
    notification,   \* the message the last step handed to the websocket;
                    \* NoMessage after a step that sent none
    connection      \* the store connection of the invocation that ended
                    \* with the last step

vars == <<rentals, purchases, tables, autoIncrement, availability, inflight, response,
          availWrite, notification, connection>>

(* ------------------------------ bounds --------------------------------- *)

\* The two tables together give out at most MaxRecords ids.
MaxRecords == 2

Users == {"o", "r", "x"}
Items == {1, 2}
PricesPerDay == {50}
Deposits == {100}
PurchasePrices == {500}

\* Lambda containers: two invocations overlap.
Procs == {"p", "q"}

(* --------------------------- the catalogue ----------------------------- *)

\* The 'owner' field of the item the catalogue returns.
ItemOwner(item_id) == "o"

\* What the catalogue holds when the first request arrives: item 1 is listed
\* and free, item 2 was sold before.
InitialAvailability(item_id) == IF item_id = 1 THEN "available" ELSE "sold"

AvailabilityValues == {"available", "active_rental", "pending_purchase", "sold"}

(* ------------------------------ requests ------------------------------- *)

\* A bearer token, by what the verifier makes of it.
\*   valid    : authenticate_user answers {"message": "Token is valid", username}
\*   invalid  : invoke_auth_lambda yields a dict whose message is not the valid one
\*   rejected : authenticate_user answers a 403 whose body is a plain string
\*   missing  : the request carries no Authorization header
\*   error    : the invocation of the verifier does not answer StatusCode 200
Tokens ==
    {[verdict |-> "valid", username |-> u] : u \in Users}
        \cup {[verdict |-> "invalid", username |-> "x"],
              [verdict |-> "rejected", username |-> "x"],
              [verdict |-> "missing", username |-> "x"],
              [verdict |-> "error", username |-> "x"]}

Actions == {"confirm", "start", "cancel", "complete"}

\* The request bodies: users.owner_id, users.renter_id / users.buyer_id and
\* the economic terms.
RentalBodies ==
    [owner_id : {"o"}, renter_id : {"r"},
     price_per_day : PricesPerDay, deposit : Deposits]

PurchaseBodies ==
    [owner_id : {"o"}, buyer_id : {"r"}, purchase_price : PurchasePrices]

(* ------------------------- the token verifier -------------------------- *)

\* The body authenticate_user returns, as json.loads gives it to the handler.
authenticate_user(token) ==
    IF token.verdict = "valid"
    THEN [is_dict |-> TRUE, message |-> "Token is valid", username |-> token.username]
    ELSE IF token.verdict = "missing"
    THEN [is_dict |-> FALSE, message |-> "Token is missing", username |-> ""]
    ELSE [is_dict |-> FALSE, message |-> "Invalid token", username |-> ""]

\* invoke_auth_lambda: the parsed body of the verifier's answer; is_dict is
\* FALSE also when it raises instead of returning (the handler's next
\* statement, auth['message'], is not reached or raises itself).
invoke_auth_lambda(token) ==
    IF token.verdict = "invalid"
    THEN [is_dict |-> TRUE, message |-> "Token is invalid", username |-> token.username]
    ELSE IF token.verdict = "error"
    THEN [is_dict |-> FALSE, message |-> "Authentication failed", username |-> ""]
    ELSE authenticate_user(token)

(* --------------------------- the collaborators ------------------------- *)

\* How the store, the catalogue and the websocket answer one call: in a
\* "faulty" run each call may also fail the ways the code provides for, in a
\* "nominal" run every call succeeds.
Outcomes(env, all) == IF env = "nominal" THEN {"ok"} ELSE all

Delivery(env) == IF env = "nominal" THEN {TRUE} ELSE BOOLEAN

(* ------------------------------ responses ------------------------------ *)

NoReply ==
    [op |-> "none", statusCode |-> 0, kind |-> "none", message |-> "", id |-> 0]

NoWrite == [item_id |-> 0, availability |-> "none"]

NoMessage ==
    [itemid |-> 0, ownerid |-> "", renterid |-> "", sender |-> "",
     admin |-> "none", delivered |-> FALSE]

\* A response; message is "" except where a claim tells the bodies of one
\* kind apart (see Blocked), id is 0 except in the 200 of a creation, whose
\* body carries the row that was read back.
Reply(op, statusCode, kind) ==
    response' = [op |-> op, statusCode |-> statusCode, kind |-> kind,
                 message |-> "", id |-> 0]

(* ----------------------- the invocations in flight --------------------- *)

TableNames == {"Rentals", "Purchases"}

\* The connection of the invocation holds no uncommitted row.
NoRow == [item_id |-> 0, status |-> "none"]

\* A container without a request.
Idle ==
    [op |-> "none", pc |-> "idle", item_id |-> 0, id |-> 0, branch |-> "none",
     requestor |-> "", owner |-> "", counterparty |-> "", row |-> NoRow,
     patched |-> TRUE, delivered |-> TRUE]

\* A request in flight: pc is the access it makes next, and the other fields
\* are the locals of the handler that its later steps use (item_id and the
\* record id of the path, the branch of the if/elif chain, requestor, and
\* item_owner and item_renter / item_buyer of the row that was selected).
\* row is the row an INSERT has put into the transaction of its connection:
\* no other connection reads it before the commit. patched and delivered
\* are what update_availability_in_items_db and send_message have answered
\* (TRUE before they are called); the handler logs or drops both answers.
Invocation(op, pc, item_id, id, branch, requestor, owner, counterparty) ==
    [op |-> op, pc |-> pc, item_id |-> item_id, id |-> id, branch |-> branch,
     requestor |-> requestor, owner |-> owner, counterparty |-> counterparty,
     row |-> NoRow, patched |-> TRUE, delivered |-> TRUE]

\* A request arrives and container p takes it: Lambda hands a request to a
\* container that is free, and starts the second one only while the first
\* is busy.
Arrives(p) ==
    /\ response = NoReply
    /\ inflight[p] = Idle
    /\ p = "q" => inflight["p"] # Idle

\* Invocation p of handler op stands in front of access pc.
At(p, op, pc) ==
    /\ response = NoReply
    /\ inflight[p].op = op
    /\ inflight[p].pc = pc

Enter(p, invocation) == inflight' = [inflight EXCEPT ![p] = invocation]

Leave(p) == inflight' = [inflight EXCEPT ![p] = Idle]

\* The invocation returns before any write to the store, the catalogue or
\* the websocket.
Refuse(p, op, statusCode, kind) ==
    /\ Reply(op, statusCode, kind)
    /\ availWrite' = NoWrite
    /\ notification' = NoMessage
    /\ Leave(p)
    /\ UNCHANGED <<rentals, purchases, availability>>

\* The invocation goes on to its next access: nothing is returned or sent.
GoOn(p, invocation) ==
    /\ response' = NoReply
    /\ Enter(p, invocation)
    /\ availWrite' = NoWrite
    /\ notification' = NoMessage
    /\ connection' = "none"

\* The runtime hands what the invocation returned, or the error it ended
\* with, to the caller. response and connection show one ended invocation
\* at a time: the step that ends it sets them, and the step after it is this
\* one. availWrite and notification show what the last step sent. No
\* handler reads any of the four.
return ==
    /\ response # NoReply
    /\ response' = NoReply
    /\ availWrite' = NoWrite
    /\ notification' = NoMessage
    /\ connection' = "none"
    /\ UNCHANGED <<rentals, purchases, tables, autoIncrement, availability, inflight>>

\* How the invocation leaves the store connection: it never had one
\* (connect_to_db was not reached or failed), it closed it (the finally
\* clause ran), or it ended with the connection still open.
Unacquired == connection' = "none"

Released == connection' = "closed"

Leaked == connection' = "open"

\* The offers in flight that have passed the availability chain and have
\* not inserted yet: the tables have an id left for each of them.
Admitted == {q \in Procs : inflight[q].pc \in {"create", "check", "insert"}}

\* The ids the two tables have given out.
Allocated == (autoIncrement["Rentals"] - 1) + (autoIncrement["Purchases"] - 1)

Room == Allocated + Cardinality(Admitted) < MaxRecords

(* ------------------------ update_rental_status ------------------------- *)

\* RentalRow with the row selected by rental_id alone.
RentalRow_IdOnly(rental_id, item_id) ==
    rental_id \in DOMAIN rentals

\* SELECT * FROM Rentals WHERE rental_id = %s AND item_id = %s
RentalRow(rental_id, item_id) ==
    rental_id \in DOMAIN rentals /\ rentals[rental_id].item_id = item_id

\* RentalBranch with the cancel branch taken from every status that is not
\* final, ongoing included.
RentalBranch_CancelOngoing(action, current_status) ==
    IF action = "confirm" /\ current_status = "offered" THEN "confirm"
    ELSE IF action = "start" /\ current_status = "confirmed" THEN "start"
    ELSE IF action = "cancel" /\ current_status \in {"offered", "confirmed", "ongoing"}
    THEN "cancel"
    ELSE IF action = "complete" /\ current_status = "ongoing" THEN "complete"
    ELSE "none"

\* The branch of the if/elif chain that (action, current_status) selects.
RentalBranch(action, current_status) ==
    IF action = "confirm" /\ current_status = "offered" THEN "confirm"
    ELSE IF action = "start" /\ current_status = "confirmed" THEN "start"
    ELSE IF action = "cancel" /\ current_status \in {"offered", "confirmed"} THEN "cancel"
    ELSE IF action = "complete" /\ current_status = "ongoing" THEN "complete"
    ELSE "none"

\* RentalActor with start and complete tested against the renter.
RentalActor_RenterStarts(branch, requestor, item_owner, item_renter) ==
    IF branch = "cancel"
    THEN requestor \in {item_owner, item_renter}
    ELSE IF branch = "confirm" THEN requestor = item_owner
    ELSE requestor = item_renter

\* RentalActor with the cancel branch open to every verified requestor.
RentalActor_AnyoneCancels(branch, requestor, item_owner, item_renter) ==
    IF branch = "cancel" THEN TRUE ELSE requestor = item_owner

\* The requestor test of each branch.
RentalActor(branch, requestor, item_owner, item_renter) ==
    IF branch = "cancel"
    THEN requestor \in {item_owner, item_renter}
    ELSE requestor = item_owner

\* new_status of each branch.
RentalNewStatus(branch) ==
    CASE branch = "confirm" -> "confirmed"
      [] branch = "start" -> "ongoing"
      [] branch = "cancel" -> "cancelled"
      [] branch = "complete" -> "completed"

\* RentalAvailability with the start branch sending its admin tag.
RentalAvailability_StartActive(branch) ==
    CASE branch = "confirm" -> "none"
      [] branch = "start" -> "active"
      [] branch = "cancel" -> "available"
      [] branch = "complete" -> "available"

\* RentalAvailability with the cancel branch sending nothing.
RentalAvailability_CancelKeeps(branch) ==
    CASE branch = "confirm" -> "none"
      [] branch = "start" -> "active_rental"
      [] branch = "cancel" -> "none"
      [] branch = "complete" -> "available"

\* RentalAvailability with the confirm branch sending what the Purchase
\* confirm branch sends.
RentalAvailability_ConfirmPending(branch) ==
    CASE branch = "confirm" -> "pending_purchase"
      [] branch = "start" -> "active_rental"
      [] branch = "cancel" -> "available"
      [] branch = "complete" -> "available"

\* The availability each branch passes to update_availability_in_items_db;
\* "none" for the branch that does not call it.
RentalAvailability(branch) ==
    CASE branch = "confirm" -> "none"
      [] branch = "start" -> "active_rental"
      [] branch = "cancel" -> "available"
      [] branch = "complete" -> "available"

\* RentalAdmin with the start branch sending the status it stores.
RentalAdmin_StartOngoing(branch) ==
    CASE branch = "confirm" -> "confirmed"
      [] branch = "start" -> "ongoing"
      [] branch = "cancel" -> "cancelled"
      [] branch = "complete" -> "completed"

\* content["admin"] of each branch.
RentalAdmin(branch) ==
    CASE branch = "confirm" -> "confirmed"
      [] branch = "start" -> "active"
      [] branch = "cancel" -> "cancelled"
      [] branch = "complete" -> "completed"

\* content["username"] of each branch.
RentalSender(branch, requestor, item_owner) ==
    IF branch = "cancel" THEN requestor ELSE item_owner

\* update_availability_in_items_db: the PATCH is sent. answered is what the
\* function tells its caller: the catalogue answered 200, having applied the
\* write, and the function returns its body; or it answered another status,
\* or requests raised, and the function returns an error dict, the write
\* applied by the catalogue or not.
update_availability_in_items_db(item_id, value, answered) ==
    \E applied \in IF answered THEN {TRUE} ELSE BOOLEAN :
        /\ availWrite' = [item_id |-> item_id, availability |-> value]
        /\ availability' =
               IF applied THEN [availability EXCEPT ![item_id] = value]
               ELSE availability

\* send_message: the websocket takes the message or fails; both are logged only.
send_message(env, itemId, ownerid, renterId, username, admin) ==
    \E delivered \in Delivery(env) :
        notification' = [itemid |-> itemId, ownerid |-> ownerid, renterid |-> renterId,
                         sender |-> username, admin |-> admin, delivered |-> delivered]

\* CallAfter with send_message called ahead of the PATCH.
CallAfter_NotifyFirst(call, value) ==
    CASE call = "update" -> "notify"
      [] call = "notify" -> IF value = "none" THEN "return" ELSE "patch"
      [] call = "patch" -> "return"

\* The statements of a branch once the requestor test has passed, in the
\* order they are written: the call that follows update_db is
\* update_availability_in_items_db in the branches that have one (value is
\* the availability the branch passes, "none" without one), then
\* send_message, then return db_update. Each is called once.
CallAfter(call, value) ==
    CASE call = "update" -> IF value = "none" THEN "notify" ELSE "patch"
      [] call = "patch" -> "notify"
      [] call = "notify" -> "return"

\* RentalVerdict with the requestor tested, by the action asked for, ahead
\* of the current status.
RentalVerdict_ActorFirst(action, current_status, requestor, item_owner, item_renter) ==
    IF ~(IF action = "cancel"
         THEN requestor \in {item_owner, item_renter}
         ELSE requestor = item_owner)
    THEN "Forbidden"
    ELSE IF ~(\/ action = "confirm" /\ current_status = "offered"
              \/ action = "start" /\ current_status = "confirmed"
              \/ action = "cancel" /\ current_status \in {"offered", "confirmed"}
              \/ action = "complete" /\ current_status = "ongoing")
    THEN "InvalidTransition"
    ELSE "ok"

\* The if/elif chain on (action, current_status) with the requestor test
\* nested in each branch: the else of the chain (400) is reached whatever
\* the requestor, the else of a branch (401) only inside the branch.
RentalVerdict(action, current_status, requestor, item_owner, item_renter) ==
    IF RentalBranch(action, current_status) = "none"
    THEN "InvalidTransition"
    ELSE IF ~RentalActor(RentalBranch(action, current_status), requestor,
                         item_owner, item_renter)
    THEN "Forbidden"
    ELSE "ok"

\* TransitionAnswer with the answers of the catalogue and of the websocket
\* decided into the response: a PATCH that was not applied or a message that
\* was not delivered turns the 200 into a 500.
TransitionAnswer_SideEffectsDecide(db_update, patched, delivered) ==
    IF patched /\ delivered THEN db_update ELSE 500

\* return db_update: the handler answers what update_db returned; the
\* answers of update_availability_in_items_db and send_message are logged.
TransitionAnswer(db_update, patched, delivered) == db_update

\* The invocation of handler op has made a call of its branch and goes on
\* to the one that follows it, or to return db_update and the finally
\* clause, which closes the connection.
Proceed(p, op, next, patched, delivered) ==
    IF next = "return"
    THEN LET statusCode == TransitionAnswer(200, patched, delivered)
         IN /\ Reply(op, statusCode, IF statusCode = 200 THEN "ok" ELSE "InternalFailure")
            /\ Released
            /\ Leave(p)
    ELSE /\ response' = NoReply
         /\ Enter(p, [inflight[p] EXCEPT !.pc = next, !.patched = patched,
                                         !.delivered = delivered])
         /\ connection' = "none"

\* The row is found: the chain answers 400 or 401, or the invocation goes on
\* to update_db with the branch and the parties it has read.
rental_transition(p, item_id, rental_id, action, requestor) ==
    LET item_owner == rentals[rental_id].owner_id
        item_renter == rentals[rental_id].renter_id
        current_status == rentals[rental_id].status
        verdict == RentalVerdict(action, current_status, requestor,
                                 item_owner, item_renter)
    IN
    IF verdict = "InvalidTransition"
    THEN Refuse(p, "transition_rental", 400, "InvalidTransition") /\ Released
    ELSE IF verdict = "Forbidden"
    THEN Refuse(p, "transition_rental", 401, "Forbidden") /\ Released
    ELSE
    /\ GoOn(p, Invocation("transition_rental", "update", item_id, rental_id,
                          RentalBranch(action, current_status), requestor,
                          item_owner, item_renter))
    /\ UNCHANGED <<rentals, purchases, availability>>

\* if rental: ... else: the 404; the action is read inside the chain.
rental_lookup(p, item_id, rental_id, requestor) ==
    IF ~RentalRow(rental_id, item_id)
    THEN Refuse(p, "transition_rental", 404, "NotFound") /\ Released
    ELSE
    \E action \in Actions :
        rental_transition(p, item_id, rental_id, action, requestor)

\* The handler from the token on, the store connection being open. The
\* SELECT fails when the store fails and when no add_rental has created the
\* table yet.
rental_update_request(env, p, token) ==
    LET auth == invoke_auth_lambda(token) IN
    IF ~auth.is_dict
    THEN Refuse(p, "transition_rental", 0, "Unhandled") /\ Leaked
    ELSE IF auth.message # "Token is valid"
    THEN Refuse(p, "transition_rental", 401, "Unauthorized") /\ Leaked
    ELSE
    \E select \in Outcomes(env, {"ok", "error"}) :
    IF select = "error" \/ "Rentals" \notin tables
    THEN Refuse(p, "transition_rental", 500, "InternalFailure") /\ Released
    ELSE
    \E item_id \in Items, rental_id \in 1..MaxRecords :
        rental_lookup(p, item_id, rental_id, auth.username)

\* The handler up to update_db: connect_to_db, the token, the SELECT of the
\* row and the if/elif chain. Each part of the request is drawn where the
\* code first reads it: an outcome that is decided before a part is read is
\* the same for every value of that part.
update_rental_status(env, p) ==
    /\ Arrives(p)
    /\ UNCHANGED <<tables, autoIncrement>>
    /\ \E connect \in Outcomes(env, {"ok", "error"}) :
        IF connect = "error"
        THEN Refuse(p, "transition_rental", 0, "Exit") /\ Unacquired
        ELSE
        \E token \in Tokens : rental_update_request(env, p, token)

\* update_db: UPDATE Rentals SET status = new_status WHERE rental_id AND
\* item_id, the commit, and the SELECT that reads the row back for the body
\* of the 200 (Reply carries no row of a transition, so that the SELECT is no
\* step of its own). The invocation goes on to the call that follows
\* update_db in its branch.
update_rental_write(env, p) ==
    /\ At(p, "transition_rental", "update")
    /\ UNCHANGED <<tables, autoIncrement>>
    /\ \E update \in Outcomes(env, {"ok", "update_error", "fetch_error"}) :
        IF update = "update_error"
        THEN Refuse(p, "transition_rental", 500, "InternalFailure") /\ Released
        ELSE
        /\ rentals' = [rentals EXCEPT
                          ![inflight[p].id].status = RentalNewStatus(inflight[p].branch)]
        /\ UNCHANGED <<purchases, availability>>
        /\ availWrite' = NoWrite
        /\ notification' = NoMessage
        /\ IF update = "fetch_error"
           THEN /\ Reply("transition_rental", 500, "InternalFailure")
                /\ Released
                /\ Leave(p)
           ELSE Proceed(p, "transition_rental",
                        CallAfter("update", RentalAvailability(inflight[p].branch)),
                        TRUE, TRUE)

\* update_availability_in_items_db: the PATCH of the catalogue; the handler
\* drops what the function answers (patched) and goes on.
update_rental_patch(env, p) ==
    LET item_id == inflight[p].item_id
        value == RentalAvailability(inflight[p].branch)
    IN
    /\ At(p, "transition_rental", "patch")
    /\ UNCHANGED <<rentals, purchases, tables, autoIncrement>>
    /\ \E answered \in Delivery(env) :
           /\ update_availability_in_items_db(item_id, value, answered)
           /\ Proceed(p, "transition_rental", CallAfter("patch", value),
                      answered, inflight[p].delivered)
    /\ notification' = NoMessage

\* send_message: the message to the websocket, whose answer the handler
\* logs; return db_update and the finally clause follow it.
update_rental_notify(env, p) ==
    LET branch == inflight[p].branch
        requestor == inflight[p].requestor
        item_owner == inflight[p].owner
    IN
    /\ At(p, "transition_rental", "notify")
    /\ UNCHANGED <<rentals, purchases, tables, autoIncrement, availability>>
    /\ send_message(env, inflight[p].item_id, item_owner, requestor,
                    RentalSender(branch, requestor, item_owner), RentalAdmin(branch))
    /\ availWrite' = NoWrite
    /\ Proceed(p, "transition_rental", CallAfter("notify", RentalAvailability(branch)),
               inflight[p].patched, notification'.delivered)

(* ------------------------------- add_rental ---------------------------- *)

\* RentalAddActiveRentals with the status list of the purchase handler's query.
RentalAddActiveRentals_OfferedCounts(item_id) ==
    {i \in DOMAIN rentals :
        /\ rentals[i].item_id = item_id
        /\ rentals[i].status \notin {"cancelled", "completed"}}

\* check_item_rental_status of irentstuff-rental-add
RentalAddActiveRentals(item_id) ==
    {i \in DOMAIN rentals :
        /\ rentals[i].item_id = item_id
        /\ rentals[i].status \notin {"offered", "cancelled", "completed"}}

\* The row create_rental_entry inserts.
NewRental(item_id, body) ==
    [owner_id |-> body.owner_id, renter_id |-> body.renter_id, item_id |-> item_id,
     status |-> "offered", price_per_day |-> body.price_per_day,
     deposit |-> body.deposit]

\* AvailabilityGate with the sold branch missing from the chain's refusals.
AvailabilityGate_SoldAdmits(item_availability) ==
    IF item_availability \in {"active_rental", "pending_purchase"}
    THEN "ItemNotAvailable"
    ELSE IF item_availability \in {"available", "sold"} THEN "admit"
    ELSE "none"

\* The item_availability if/elif chain, shared in shape by both add handlers.
AvailabilityGate(item_availability) ==
    IF item_availability \in {"active_rental", "pending_purchase", "sold"}
    THEN "ItemNotAvailable"
    ELSE IF item_availability = "available" THEN "admit"
    ELSE "none"

\* AvailabilityMessage with the active_rental branch answering the body of
\* the branch below it.
AvailabilityMessage_ActiveAsPending(item_availability) ==
    CASE item_availability = "active_rental" -> "There are pending purchases"
      [] item_availability = "pending_purchase" -> "There are pending purchases"
      [] item_availability = "sold" -> "Item has been sold"

\* The body of the 400 each blocking availability gets, by its first words.
AvailabilityMessage(item_availability) ==
    CASE item_availability = "active_rental" -> "There are active rentals"
      [] item_availability = "pending_purchase" -> "There are pending purchases"
      [] item_availability = "sold" -> "Item has been sold"

\* AdmissionVerdict with the availability chain ahead of the owner test.
AdmissionVerdict_AvailabilityFirst(requestor, item_owner, item_availability) ==
    IF AvailabilityGate(item_availability) = "ItemNotAvailable" THEN "ItemNotAvailable"
    ELSE IF requestor = item_owner THEN "SelfDealing"
    ELSE AvailabilityGate(item_availability)

\* The elif on requestor == item_owner and the availability chain of its
\* else branch, in the order both add handlers test them.
AdmissionVerdict(requestor, item_owner, item_availability) ==
    IF requestor = item_owner THEN "SelfDealing"
    ELSE AvailabilityGate(item_availability)

\* LastInsertId with the id taken as the largest id of the table when the
\* row is read back.
LastInsertId_MaxId(p) ==
    LET ids == IF inflight[p].op = "create_rental"
               THEN DOMAIN rentals ELSE DOMAIN purchases
    IN CHOOSE n \in ids : \A i \in ids : i <= n

\* SELECT LAST_INSERT_ID(): the id the last INSERT of this connection got.
LastInsertId(p) == inflight[p].id

\* The 400 of the availability chain.
Blocked(p, op, item_availability) ==
    /\ response' = [op |-> op, statusCode |-> 400, kind |-> "ItemNotAvailable",
                    message |-> AvailabilityMessage(item_availability), id |-> 0]
    /\ availWrite' = NoWrite
    /\ notification' = NoMessage
    /\ Leave(p)
    /\ UNCHANGED <<rentals, purchases, availability>>

\* The elif on the owner and the availability chain that follow a valid
\* token: a 400, or the invocation goes on to the store.
rental_admission(p, item_id, requestor) ==
    LET item_availability == availability[item_id]
        item_owner == ItemOwner(item_id)
        verdict == AdmissionVerdict(requestor, item_owner, item_availability)
    IN
    IF verdict = "SelfDealing"
    THEN Refuse(p, "create_rental", 400, "SelfDealing") /\ Unacquired
    ELSE IF verdict = "ItemNotAvailable"
    THEN Blocked(p, "create_rental", item_availability) /\ Unacquired
    ELSE IF verdict = "none"
    THEN Refuse(p, "create_rental", 0, "NoResponse") /\ Unacquired
    ELSE
    /\ Room
    /\ GoOn(p, Invocation("create_rental", "create", item_id, 0, "none", "", "", ""))
    /\ UNCHANGED <<rentals, purchases, availability>>

\* The handler on a request carrying token: the token is verified and the
\* item fetched before any check.
rental_request(env, p, token) ==
    LET auth == invoke_auth_lambda(token) IN
    IF ~auth.is_dict
    THEN Refuse(p, "create_rental", 0, "Unhandled") /\ Unacquired
    ELSE
    \E item_id \in Items, get_item \in Outcomes(env, {"ok", "error"}) :
    IF get_item = "error"
    THEN Refuse(p, "create_rental", 0, "Unhandled") /\ Unacquired
    ELSE IF auth.message # "Token is valid"
    THEN Refuse(p, "create_rental", 401, "Unauthorized") /\ Unacquired
    ELSE rental_admission(p, item_id, auth.username)

\* The handler up to connect_to_db: invoke_auth_lambda, get_item, which
\* reads the catalogue, and the chain on the owner and the availability.
add_rental(env, p) ==
    /\ Arrives(p)
    /\ UNCHANGED <<tables, autoIncrement>>
    /\ \E token \in Tokens : rental_request(env, p, token)

\* add_rental_check with the row inserted ahead of the query for active
\* rentals, so that a request answered Conflict has left its row behind.
add_rental_check_InsertFirst(env, p) ==
    /\ At(p, "create_rental", "check")
    /\ UNCHANGED tables
    /\ \E check \in Outcomes(env, {"ok", "check_error"}) :
        IF check = "check_error"
        THEN /\ Refuse(p, "create_rental", 500, "InternalFailure")
             /\ Released
             /\ UNCHANGED autoIncrement
        ELSE IF RentalAddActiveRentals(inflight[p].item_id) # {}
        THEN /\ \E body \in RentalBodies :
                  rentals' = (autoIncrement["Rentals"]
                                  :> NewRental(inflight[p].item_id, body)) @@ rentals
             /\ autoIncrement' = [autoIncrement EXCEPT !["Rentals"] = @ + 1]
             /\ Reply("create_rental", 403, "Conflict")
             /\ availWrite' = NoWrite
             /\ notification' = NoMessage
             /\ Released
             /\ Leave(p)
             /\ UNCHANGED <<purchases, availability>>
        ELSE /\ GoOn(p, [inflight[p] EXCEPT !.pc = "insert"])
             /\ UNCHANGED <<rentals, purchases, autoIncrement, availability>>

\* connect_to_db and create_rental_table: CREATE TABLE IF NOT EXISTS, which
\* the store applies at once, and the commit that follows it. A failure of
\* either is caught by the except clause of the handler, which logs it: the
\* invocation ends without a response, and the table is there when it was
\* the commit that failed. The commit is no step of its own: nothing is
\* left for it to make visible.
add_rental_create(env, p) ==
    /\ At(p, "create_rental", "create")
    /\ UNCHANGED autoIncrement
    /\ \E store \in Outcomes(env, {"ok", "connect_error", "table_error", "commit_error"}) :
        IF store = "connect_error"
        THEN Refuse(p, "create_rental", 0, "Unhandled") /\ Unacquired /\ UNCHANGED tables
        ELSE IF store = "table_error"
        THEN Refuse(p, "create_rental", 0, "NoResponse") /\ Released /\ UNCHANGED tables
        ELSE
        /\ tables' = tables \cup {"Rentals"}
        /\ IF store = "commit_error"
           THEN Refuse(p, "create_rental", 0, "NoResponse") /\ Released
           ELSE /\ GoOn(p, [inflight[p] EXCEPT !.pc = "check"])
                /\ UNCHANGED <<rentals, purchases, availability>>

\* check_item_rental_status: the SELECT on Rentals, which reads the rows
\* that are committed, and the 403.
add_rental_check(env, p) ==
    /\ At(p, "create_rental", "check")
    /\ UNCHANGED <<tables, autoIncrement>>
    /\ \E check \in Outcomes(env, {"ok", "check_error"}) :
        IF check = "check_error"
        THEN Refuse(p, "create_rental", 500, "InternalFailure") /\ Released
        ELSE IF RentalAddActiveRentals(inflight[p].item_id) # {}
        THEN Refuse(p, "create_rental", 403, "Conflict") /\ Released
        ELSE /\ GoOn(p, [inflight[p] EXCEPT !.pc = "insert"])
             /\ UNCHANGED <<rentals, purchases, availability>>

\* create_rental_entry: the INSERT. rental_id is AUTO_INCREMENT: the
\* statement takes the next id of the table, which no later INSERT gets
\* again, and the row stays in the transaction of this connection until the
\* commit. The body of the request is read here.
add_rental_insert(env, p) ==
    /\ At(p, "create_rental", "insert")
    /\ UNCHANGED tables
    /\ \E insert \in Outcomes(env, {"ok", "insert_error"}) :
        IF insert = "insert_error"
        THEN /\ Refuse(p, "create_rental", 500, "InternalFailure")
             /\ Released
             /\ UNCHANGED autoIncrement
        ELSE
        /\ autoIncrement' = [autoIncrement EXCEPT !["Rentals"] = @ + 1]
        /\ \E body \in RentalBodies :
            GoOn(p, [inflight[p] EXCEPT !.pc = "commit",
                                        !.id = autoIncrement["Rentals"],
                                        !.row = NewRental(inflight[p].item_id, body)])
        /\ UNCHANGED <<rentals, purchases, availability>>

\* create_rental_entry: the commit after the INSERT, which puts the row
\* into the table for every connection to read. When it fails the handler
\* answers 500 and closes the connection: the row is rolled back and its id
\* stays used.
add_rental_commit(env, p) ==
    /\ At(p, "create_rental", "commit")
    /\ UNCHANGED <<tables, autoIncrement>>
    /\ \E commit \in Outcomes(env, {"ok", "commit_error"}) :
        IF commit = "commit_error"
        THEN Refuse(p, "create_rental", 500, "InternalFailure") /\ Released
        ELSE
        /\ rentals' = (inflight[p].id :> inflight[p].row) @@ rentals
        /\ GoOn(p, [inflight[p] EXCEPT !.pc = "fetch", !.row = NoRow])
        /\ UNCHANGED <<purchases, availability>>

\* create_rental_entry: SELECT LAST_INSERT_ID() and the SELECT by that id,
\* whose row the 200 is built from; then the finally clause.
add_rental_fetch(env, p) ==
    /\ At(p, "create_rental", "fetch")
    /\ UNCHANGED <<tables, autoIncrement>>
    /\ \E fetch \in Outcomes(env, {"ok", "fetch_error"}) :
        IF fetch = "fetch_error"
        THEN Refuse(p, "create_rental", 500, "InternalFailure") /\ Released
        ELSE
        /\ response' = [op |-> "create_rental", statusCode |-> 200, kind |-> "ok",
                        message |-> "", id |-> LastInsertId(p)]
        /\ availWrite' = NoWrite
        /\ notification' = NoMessage
        /\ Released
        /\ Leave(p)
        /\ UNCHANGED <<rentals, purchases, availability>>

(* ----------------------- update_purchase_status ------------------------ *)

\* SELECT * FROM Purchases WHERE purchase_id = %s AND item_id = %s
PurchaseRow(purchase_id, item_id) ==
    purchase_id \in DOMAIN purchases /\ purchases[purchase_id].item_id = item_id

\* PurchaseBranch with the cancel branch taken from sold as well.
PurchaseBranch_CancelSold(action, current_status) ==
    IF action = "confirm" /\ current_status = "offered" THEN "confirm"
    ELSE IF action = "cancel" /\ current_status \in {"offered", "confirmed", "sold"}
    THEN "cancel"
    ELSE IF action = "complete" /\ current_status = "confirmed" THEN "complete"
    ELSE "none"

\* The branch of the if/elif chain that (action, current_status) selects.
PurchaseBranch(action, current_status) ==
    IF action = "confirm" /\ current_status = "offered" THEN "confirm"
    ELSE IF action = "cancel" /\ current_status \in {"offered", "confirmed"} THEN "cancel"
    ELSE IF action = "complete" /\ current_status = "confirmed" THEN "complete"
    ELSE "none"

\* PurchaseActor with the cancel branch open to every verified requestor.
PurchaseActor_AnyoneCancels(branch, requestor, item_owner, item_buyer) ==
    IF branch = "cancel" THEN TRUE ELSE requestor = item_owner

\* The requestor test of each branch.
PurchaseActor(branch, requestor, item_owner, item_buyer) ==
    IF branch = "cancel"
    THEN requestor \in {item_owner, item_buyer}
    ELSE requestor = item_owner

\* new_status of each branch.
PurchaseNewStatus(branch) ==
    CASE branch = "confirm" -> "confirmed"
      [] branch = "cancel" -> "cancelled"
      [] branch = "complete" -> "sold"

\* PurchaseAvailability with the complete branch sending what the Rental
\* complete branch sends.
PurchaseAvailability_CompleteAvailable(branch) ==
    CASE branch = "confirm" -> "pending_purchase"
      [] branch = "cancel" -> "available"
      [] branch = "complete" -> "available"

\* The availability each branch passes to update_availability_in_items_db.
PurchaseAvailability(branch) ==
    CASE branch = "confirm" -> "pending_purchase"
      [] branch = "cancel" -> "available"
      [] branch = "complete" -> "sold"

\* content["admin"] of each branch.
PurchaseAdmin(branch) ==
    CASE branch = "confirm" -> "confirmed"
      [] branch = "cancel" -> "cancelled"
      [] branch = "complete" -> "sold"

\* content["username"] of each branch.
PurchaseSender(branch, requestor, item_owner) ==
    IF branch = "cancel" THEN requestor ELSE item_owner

\* PurchaseUpdate with one SET list for every status.
PurchaseUpdate_NoDate(row, new_status) ==
    [row EXCEPT !.status = new_status]

\* PurchaseUpdate with the row written anew from the columns the statement
\* names, the others falling back to their defaults.
PurchaseUpdate_ReplacesRow(row, new_status) ==
    [owner_id |-> row.owner_id, buyer_id |-> row.buyer_id, item_id |-> row.item_id,
     status |-> new_status, purchase_price |-> 0,
     purchase_date |-> IF new_status = "sold" THEN "NOW" ELSE row.purchase_date]

\* update_db of irentstuff_purchase_update: the UPDATE statement's SET list.
PurchaseUpdate(row, new_status) ==
    IF new_status = "sold"
    THEN [row EXCEPT !.status = new_status, !.purchase_date = "NOW"]
    ELSE [row EXCEPT !.status = new_status]

\* The if/elif chain on (action, current_status) with the requestor test
\* nested in each branch: the else of the chain (400) is reached whatever
\* the requestor, the else of a branch (401) only inside the branch.
PurchaseVerdict(action, current_status, requestor, item_owner, item_buyer) ==
    IF PurchaseBranch(action, current_status) = "none"
    THEN "InvalidTransition"
    ELSE IF ~PurchaseActor(PurchaseBranch(action, current_status), requestor,
                         item_owner, item_buyer)
    THEN "Forbidden"
    ELSE "ok"

\* The row is found: the chain answers 400 or 401, or the invocation goes on
\* to update_db with the branch and the parties it has read.
purchase_transition(p, item_id, purchase_id, action, requestor) ==
    LET item_owner == purchases[purchase_id].owner_id
        item_buyer == purchases[purchase_id].buyer_id
        current_status == purchases[purchase_id].status
        verdict == PurchaseVerdict(action, current_status, requestor,
                                 item_owner, item_buyer)
    IN
    IF verdict = "InvalidTransition"
    THEN Refuse(p, "transition_purchase", 400, "InvalidTransition") /\ Released
    ELSE IF verdict = "Forbidden"
    THEN Refuse(p, "transition_purchase", 401, "Forbidden") /\ Released
    ELSE
    /\ GoOn(p, Invocation("transition_purchase", "update", item_id, purchase_id,
                          PurchaseBranch(action, current_status), requestor,
                          item_owner, item_buyer))
    /\ UNCHANGED <<rentals, purchases, availability>>

\* if purchase: ... else: the 404; the action is read inside the chain.
purchase_lookup(p, item_id, purchase_id, requestor) ==
    IF ~PurchaseRow(purchase_id, item_id)
    THEN Refuse(p, "transition_purchase", 404, "NotFound") /\ Released
    ELSE
    \E action \in Actions :
        purchase_transition(p, item_id, purchase_id, action, requestor)

\* The handler from the token on, the store connection being open. The
\* SELECT fails when the store fails and when no add_purchase has created the
\* table yet.
purchase_update_request(env, p, token) ==
    LET auth == invoke_auth_lambda(token) IN
    IF ~auth.is_dict
    THEN Refuse(p, "transition_purchase", 0, "Unhandled") /\ Leaked
    ELSE IF auth.message # "Token is valid"
    THEN Refuse(p, "transition_purchase", 401, "Unauthorized") /\ Leaked
    ELSE
    \E select \in Outcomes(env, {"ok", "error"}) :
    IF select = "error" \/ "Purchases" \notin tables
    THEN Refuse(p, "transition_purchase", 500, "InternalFailure") /\ Released
    ELSE
    \E item_id \in Items, purchase_id \in 1..MaxRecords :
        purchase_lookup(p, item_id, purchase_id, auth.username)

\* The handler up to update_db: connect_to_db, the token, the SELECT of the
\* row and the if/elif chain. Each part of the request is drawn where the
\* code first reads it: an outcome that is decided before a part is read is
\* the same for every value of that part.
update_purchase_status(env, p) ==
    /\ Arrives(p)
    /\ UNCHANGED <<tables, autoIncrement>>
    /\ \E connect \in Outcomes(env, {"ok", "error"}) :
        IF connect = "error"
        THEN Refuse(p, "transition_purchase", 0, "Exit") /\ Unacquired
        ELSE
        \E token \in Tokens : purchase_update_request(env, p, token)

\* update_db: UPDATE Purchases SET status = new_status (and purchase_date
\* for sold) WHERE purchase_id AND item_id, the commit, and the SELECT that
\* reads the row back for the body of the 200 (Reply carries no row of a
\* transition, so that the SELECT is no step of its own). The invocation
\* goes on to the call that follows update_db in its branch.
update_purchase_write(env, p) ==
    /\ At(p, "transition_purchase", "update")
    /\ UNCHANGED <<tables, autoIncrement>>
    /\ \E update \in Outcomes(env, {"ok", "update_error", "fetch_error"}) :
        IF update = "update_error"
        THEN Refuse(p, "transition_purchase", 500, "InternalFailure") /\ Released
        ELSE
        /\ purchases' = [purchases EXCEPT ![inflight[p].id] =
                            PurchaseUpdate(purchases[inflight[p].id],
                                           PurchaseNewStatus(inflight[p].branch))]
        /\ UNCHANGED <<rentals, availability>>
        /\ availWrite' = NoWrite
        /\ notification' = NoMessage
        /\ IF update = "fetch_error"
           THEN /\ Reply("transition_purchase", 500, "InternalFailure")
                /\ Released
                /\ Leave(p)
           ELSE Proceed(p, "transition_purchase",
                        CallAfter("update", PurchaseAvailability(inflight[p].branch)),
                        TRUE, TRUE)

\* update_availability_in_items_db: the PATCH of the catalogue; the handler
\* drops what the function answers (patched) and goes on.
update_purchase_patch(env, p) ==
    LET item_id == inflight[p].item_id
        value == PurchaseAvailability(inflight[p].branch)
    IN
    /\ At(p, "transition_purchase", "patch")
    /\ UNCHANGED <<rentals, purchases, tables, autoIncrement>>
    /\ \E answered \in Delivery(env) :
           /\ update_availability_in_items_db(item_id, value, answered)
           /\ Proceed(p, "transition_purchase", CallAfter("patch", value),
                      answered, inflight[p].delivered)
    /\ notification' = NoMessage

\* send_message: the message to the websocket, whose answer the handler
\* logs; return db_update and the finally clause follow it.
update_purchase_notify(env, p) ==
    LET branch == inflight[p].branch
        requestor == inflight[p].requestor
        item_owner == inflight[p].owner
        item_buyer == inflight[p].counterparty
    IN
    /\ At(p, "transition_purchase", "notify")
    /\ UNCHANGED <<rentals, purchases, tables, autoIncrement, availability>>
    /\ send_message(env, inflight[p].item_id, item_owner, item_buyer,
                    PurchaseSender(branch, requestor, item_owner), PurchaseAdmin(branch))
    /\ availWrite' = NoWrite
    /\ Proceed(p, "transition_purchase", CallAfter("notify", PurchaseAvailability(branch)),
               inflight[p].patched, notification'.delivered)

(* ------------------------------ add_purchase --------------------------- *)

\* PurchaseAddActiveRentals with the item's open Purchases counted as well:
\* the ids are those of the rows that block, Rentals and Purchases alike.
PurchaseAddActiveRentals_OpenPurchasesCount(item_id) ==
    {i \in DOMAIN rentals :
        /\ rentals[i].item_id = item_id
        /\ rentals[i].status \notin {"cancelled", "completed"}}
    \cup {i \in DOMAIN purchases :
             /\ purchases[i].item_id = item_id
             /\ purchases[i].status \notin {"cancelled", "sold"}}

\* check_item_rental_status of irentstuff-purchase-add
PurchaseAddActiveRentals(item_id) ==
    {i \in DOMAIN rentals :
        /\ rentals[i].item_id = item_id
        /\ rentals[i].status \notin {"cancelled", "completed"}}

\* The row create_purchase_entry inserts; purchase_date is left NULL.
NewPurchase(item_id, body) ==
    [owner_id |-> body.owner_id, buyer_id |-> body.buyer_id, item_id |-> item_id,
     status |-> "offered", purchase_price |-> body.purchase_price,
     purchase_date |-> "NULL"]

\* The elif on the owner and the availability chain that follow a valid
\* token: a 400, or the invocation goes on to the store.
purchase_admission(p, item_id, requestor) ==
    LET item_availability == availability[item_id]
        item_owner == ItemOwner(item_id)
        verdict == AdmissionVerdict(requestor, item_owner, item_availability)
    IN
    IF verdict = "SelfDealing"
    THEN Refuse(p, "create_purchase", 400, "SelfDealing") /\ Unacquired
    ELSE IF verdict = "ItemNotAvailable"
    THEN Blocked(p, "create_purchase", item_availability) /\ Unacquired
    ELSE IF verdict = "none"
    THEN Refuse(p, "create_purchase", 0, "NoResponse") /\ Unacquired
    ELSE
    /\ Room
    /\ GoOn(p, Invocation("create_purchase", "create", item_id, 0, "none", "", "", ""))
    /\ UNCHANGED <<rentals, purchases, availability>>

\* The handler on a request carrying token: the token is verified and the
\* item fetched before any check.
purchase_request(env, p, token) ==
    LET auth == invoke_auth_lambda(token) IN
    IF ~auth.is_dict
    THEN Refuse(p, "create_purchase", 0, "Unhandled") /\ Unacquired
    ELSE
    \E item_id \in Items, get_item \in Outcomes(env, {"ok", "error"}) :
    IF get_item = "error"
    THEN Refuse(p, "create_purchase", 0, "Unhandled") /\ Unacquired
    ELSE IF auth.message # "Token is valid"
    THEN Refuse(p, "create_purchase", 401, "Unauthorized") /\ Unacquired
    ELSE purchase_admission(p, item_id, auth.username)

\* The handler up to connect_to_db: invoke_auth_lambda, get_item, which
\* reads the catalogue, and the chain on the owner and the availability.
add_purchase(env, p) ==
    /\ Arrives(p)
    /\ UNCHANGED <<tables, autoIncrement>>
    /\ \E token \in Tokens : purchase_request(env, p, token)

\* connect_to_db and create_purchases_table: CREATE TABLE IF NOT EXISTS,
\* which the store applies at once, and the commit that follows it. A
\* failure of either is caught by the except clause of the handler, which
\* logs it: the invocation ends without a response, and the table is there
\* when it was the commit that failed.
add_purchase_create(env, p) ==
    /\ At(p, "create_purchase", "create")
    /\ UNCHANGED autoIncrement
    /\ \E store \in Outcomes(env, {"ok", "connect_error", "table_error", "commit_error"}) :
        IF store = "connect_error"
        THEN Refuse(p, "create_purchase", 0, "Unhandled") /\ Unacquired /\ UNCHANGED tables
        ELSE IF store = "table_error"
        THEN Refuse(p, "create_purchase", 0, "NoResponse") /\ Released /\ UNCHANGED tables
        ELSE
        /\ tables' = tables \cup {"Purchases"}
        /\ IF store = "commit_error"
           THEN Refuse(p, "create_purchase", 0, "NoResponse") /\ Released
           ELSE /\ GoOn(p, [inflight[p] EXCEPT !.pc = "check"])
                /\ UNCHANGED <<rentals, purchases, availability>>

\* check_item_rental_status: the SELECT on Rentals, which reads the rows
\* that are committed and fails when the store fails and when no add_rental
\* has created that table yet, and the 403.
add_purchase_check(env, p) ==
    /\ At(p, "create_purchase", "check")
    /\ UNCHANGED <<tables, autoIncrement>>
    /\ \E check \in Outcomes(env, {"ok", "check_error"}) :
        IF check = "check_error" \/ "Rentals" \notin tables
        THEN Refuse(p, "create_purchase", 500, "InternalFailure") /\ Released
        ELSE IF PurchaseAddActiveRentals(inflight[p].item_id) # {}
        THEN Refuse(p, "create_purchase", 403, "Conflict") /\ Released
        ELSE /\ GoOn(p, [inflight[p] EXCEPT !.pc = "insert"])
             /\ UNCHANGED <<rentals, purchases, availability>>

\* add_purchase_insert with the item marked pending_purchase in the
\* catalogue when the offer is inserted.
add_purchase_insert_MarksPending(env, p) ==
    /\ At(p, "create_purchase", "insert")
    /\ UNCHANGED tables
    /\ \E insert \in Outcomes(env, {"ok", "insert_error"}) :
        IF insert = "insert_error"
        THEN /\ Refuse(p, "create_purchase", 500, "InternalFailure")
             /\ Released
             /\ UNCHANGED autoIncrement
        ELSE
        /\ autoIncrement' = [autoIncrement EXCEPT !["Purchases"] = @ + 1]
        /\ \E body \in PurchaseBodies :
            GoOn(p, [inflight[p] EXCEPT !.pc = "commit",
                                        !.id = autoIncrement["Purchases"],
                                        !.row = NewPurchase(inflight[p].item_id, body)])
        /\ availability' = [availability EXCEPT ![inflight[p].item_id] = "pending_purchase"]
        /\ UNCHANGED <<rentals, purchases>>

\* create_purchase_entry: the INSERT. purchase_id is AUTO_INCREMENT: the
\* statement takes the next id of the table, which no later INSERT gets
\* again, and the row stays in the transaction of this connection until the
\* commit. The body of the request is read here.
add_purchase_insert(env, p) ==
    /\ At(p, "create_purchase", "insert")
    /\ UNCHANGED tables
    /\ \E insert \in Outcomes(env, {"ok", "insert_error"}) :
        IF insert = "insert_error"
        THEN /\ Refuse(p, "create_purchase", 500, "InternalFailure")
             /\ Released
             /\ UNCHANGED autoIncrement
        ELSE
        /\ autoIncrement' = [autoIncrement EXCEPT !["Purchases"] = @ + 1]
        /\ \E body \in PurchaseBodies :
            GoOn(p, [inflight[p] EXCEPT !.pc = "commit",
                                        !.id = autoIncrement["Purchases"],
                                        !.row = NewPurchase(inflight[p].item_id, body)])
        /\ UNCHANGED <<rentals, purchases, availability>>

\* create_purchase_entry: the commit after the INSERT, which puts the row
\* into the table for every connection to read. When it fails the handler
\* answers 500 and closes the connection: the row is rolled back and its id
\* stays used.
add_purchase_commit(env, p) ==
    /\ At(p, "create_purchase", "commit")
    /\ UNCHANGED <<tables, autoIncrement>>
    /\ \E commit \in Outcomes(env, {"ok", "commit_error"}) :
        IF commit = "commit_error"
        THEN Refuse(p, "create_purchase", 500, "InternalFailure") /\ Released
        ELSE
        /\ purchases' = (inflight[p].id :> inflight[p].row) @@ purchases
        /\ GoOn(p, [inflight[p] EXCEPT !.pc = "fetch", !.row = NoRow])
        /\ UNCHANGED <<rentals, availability>>

\* create_purchase_entry: SELECT LAST_INSERT_ID() and the SELECT by that id,
\* whose row the 200 is built from; then the finally clause.
add_purchase_fetch(env, p) ==
    /\ At(p, "create_purchase", "fetch")
    /\ UNCHANGED <<tables, autoIncrement>>
    /\ \E fetch \in Outcomes(env, {"ok", "fetch_error"}) :
        IF fetch = "fetch_error"
        THEN Refuse(p, "create_purchase", 500, "InternalFailure") /\ Released
        ELSE
        /\ response' = [op |-> "create_purchase", statusCode |-> 200, kind |-> "ok",
                        message |-> "", id |-> LastInsertId(p)]
        /\ availWrite' = NoWrite
        /\ notification' = NoMessage
        /\ Released
        /\ Leave(p)
        /\ UNCHANGED <<rentals, purchases, availability>>

(* ------------------------------- the system ---------------------------- *)

\* A store in which no table has been created yet, the catalogue as listed,
\* no request in flight.
Init ==
    /\ rentals = <<>>
    /\ purchases = <<>>
    /\ tables = {}
    /\ autoIncrement = [t \in TableNames |-> 1]
    /\ availability = [i \in Items |-> InitialAvailability(i)]
    /\ inflight = [p \in Procs |-> Idle]
    /\ response = NoReply
    /\ availWrite = NoWrite
    /\ notification = NoMessage
    /\ connection = "none"

\* Every step is the next access of one invocation, or the return of the
\* one that has just ended; any collaborator call may fail.
Next ==
    \/ return
    \/ \E p \in Procs :
          \/ add_rental("faulty", p)
          \/ add_rental_create("faulty", p)
          \/ add_rental_check("faulty", p)
          \/ add_rental_insert("faulty", p)
          \/ add_rental_commit("faulty", p)
          \/ add_rental_fetch("faulty", p)
          \/ add_purchase("faulty", p)
          \/ add_purchase_create("faulty", p)
          \/ add_purchase_check("faulty", p)
          \/ add_purchase_insert("faulty", p)
          \/ add_purchase_commit("faulty", p)
          \/ add_purchase_fetch("faulty", p)
          \/ update_rental_status("faulty", p)
          \/ update_rental_write("faulty", p)
          \/ update_rental_patch("faulty", p)
          \/ update_rental_notify("faulty", p)
          \/ update_purchase_status("faulty", p)
          \/ update_purchase_write("faulty", p)
          \/ update_purchase_patch("faulty", p)
          \/ update_purchase_notify("faulty", p)

Spec == Init /\ [][Next]_vars

\* The same steps in a run where every collaborator call succeeds; a query on
\* a table that no creation has made yet still fails.
NextNominal ==
    \/ return
    \/ \E p \in Procs :
          \/ add_rental("nominal", p)
          \/ add_rental_create("nominal", p)
          \/ add_rental_check("nominal", p)
          \/ add_rental_insert("nominal", p)
          \/ add_rental_commit("nominal", p)
          \/ add_rental_fetch("nominal", p)
          \/ add_purchase("nominal", p)
          \/ add_purchase_create("nominal", p)
          \/ add_purchase_check("nominal", p)
          \/ add_purchase_insert("nominal", p)
          \/ add_purchase_commit("nominal", p)
          \/ add_purchase_fetch("nominal", p)
          \/ update_rental_status("nominal", p)
          \/ update_rental_write("nominal", p)
          \/ update_rental_patch("nominal", p)
          \/ update_rental_notify("nominal", p)
          \/ update_purchase_status("nominal", p)
          \/ update_purchase_write("nominal", p)
          \/ update_purchase_patch("nominal", p)
          \/ update_purchase_notify("nominal", p)

SpecNominal == Init /\ [][NextNominal]_vars

\* Requests handled one after the other: one container takes the next
\* request when it has answered the last one, so that no two invocations
\* overlap. Any collaborator call may fail.
NextOneByOne ==
    \/ return
    \/ add_rental("faulty", "p")
    \/ add_rental_create("faulty", "p")
    \/ add_rental_check("faulty", "p")
    \/ add_rental_insert("faulty", "p")
    \/ add_rental_commit("faulty", "p")
    \/ add_rental_fetch("faulty", "p")
    \/ add_purchase("faulty", "p")
    \/ add_purchase_create("faulty", "p")
    \/ add_purchase_check("faulty", "p")
    \/ add_purchase_insert("faulty", "p")
    \/ add_purchase_commit("faulty", "p")
    \/ add_purchase_fetch("faulty", "p")
    \/ update_rental_status("faulty", "p")
    \/ update_rental_write("faulty", "p")
    \/ update_rental_patch("faulty", "p")
    \/ update_rental_notify("faulty", "p")
    \/ update_purchase_status("faulty", "p")
    \/ update_purchase_write("faulty", "p")
    \/ update_purchase_patch("faulty", "p")
    \/ update_purchase_notify("faulty", "p")

SpecOneByOne == Init /\ [][NextOneByOne]_vars

\* Requests handled one after the other in a run where every collaborator
\* call succeeds.
NextNominalOneByOne ==
    \/ return
    \/ add_rental("nominal", "p")
    \/ add_rental_create("nominal", "p")
    \/ add_rental_check("nominal", "p")
    \/ add_rental_insert("nominal", "p")
    \/ add_rental_commit("nominal", "p")
    \/ add_rental_fetch("nominal", "p")
    \/ add_purchase("nominal", "p")
    \/ add_purchase_create("nominal", "p")
    \/ add_purchase_check("nominal", "p")
    \/ add_purchase_insert("nominal", "p")
    \/ add_purchase_commit("nominal", "p")
    \/ add_purchase_fetch("nominal", "p")
    \/ update_rental_status("nominal", "p")
    \/ update_rental_write("nominal", "p")
    \/ update_rental_patch("nominal", "p")
    \/ update_rental_notify("nominal", "p")
    \/ update_purchase_status("nominal", "p")
    \/ update_purchase_write("nominal", "p")
    \/ update_purchase_patch("nominal", "p")
    \/ update_purchase_notify("nominal", "p")

SpecNominalOneByOne == Init /\ [][NextNominalOneByOne]_vars

(* ------------------------------ properties ----------------------------- *)

\* The (action, status) pairs of the Rental transition table.
LegalRentalEdges ==
    {<<"confirm", "offered">>, <<"start", "confirmed">>, <<"cancel", "offered">>,
     <<"cancel", "confirmed">>, <<"complete", "ongoing">>}

\* The (action, status) pairs of the Purchase transition table.
LegalPurchaseEdges ==
    {<<"confirm", "offered">>, <<"cancel", "offered">>, <<"cancel", "confirmed">>,
     <<"complete", "confirmed">>}

\* The statuses of a stored row.
RentalStatuses == {"offered", "confirmed", "ongoing", "cancelled", "completed"}

PurchaseStatuses == {"offered", "confirmed", "cancelled", "sold"}

\* The actions the table gives a status, and those it does not give it.
LegalRentalActions ==
    [status \in RentalStatuses |->
        {action \in Actions : <<action, status>> \in LegalRentalEdges}]

IllegalRentalActions ==
    [status \in RentalStatuses |-> Actions \ LegalRentalActions[status]]

LegalPurchaseActions ==
    [status \in PurchaseStatuses |->
        {action \in Actions : <<action, status>> \in LegalPurchaseEdges}]

IllegalPurchaseActions ==
    [status \in PurchaseStatuses |-> Actions \ LegalPurchaseActions[status]]

\* The step is the first one of a request to handler op: the request is
\* answered at once, or its invocation goes on to the store.
FirstStep(op) ==
    \/ response'.op = op /\ inflight' = inflight
    \/ \E p \in Procs : inflight[p] = Idle /\ inflight'[p].op = op

\* The step is a later step of the invocation in container p.
Moved(p) == inflight[p] # Idle /\ inflight'[p] # inflight[p]

\* The Rentals of an item whose status is one of statuses.
RentalsIn(item_id, statuses) ==
    {i \in DOMAIN rentals :
        rentals[i].item_id = item_id /\ rentals[i].status \in statuses}

\* Invocation p of handler op takes the step it stands in front of as pc.
Takes(p, op, pc) ==
    /\ Moved(p)
    /\ inflight[p].op = op
    /\ inflight[p].pc = pc

\* The status the spec's table gives a transition, by the branch taken.
RentalTarget(branch) ==
    CASE branch = "confirm" -> "confirmed"
      [] branch = "start" -> "ongoing"
      [] branch = "cancel" -> "cancelled"
      [] branch = "complete" -> "completed"

PurchaseTarget(branch) ==
    CASE branch = "confirm" -> "confirmed"
      [] branch = "cancel" -> "cancelled"
      [] branch = "complete" -> "sold"

\* C1: a Rental transition requested by a valid requestor whose (action,
\* status) pair, the status being the one its SELECT returns, is not an edge
\* of the table is refused with InvalidTransition (400) on the spot: no later
\* step follows, the stored rows and every item's availability stay as they
\* are, no availability write is sent and no notification.
C1_IllegalRentalEdgeRefused ==
    [][(/\ FirstStep("transition_rental")
        /\ ~(/\ response'.kind = "InvalidTransition"
             /\ response'.statusCode = 400
             /\ inflight' = inflight
             /\ rentals' = rentals
             /\ availability' = availability
             /\ availWrite' = NoWrite
             /\ notification' = NoMessage))
       => \A p \in Procs :
            Arrives(p) =>
                \A rental_id \in DOMAIN rentals :
                    \A action \in IllegalRentalActions[rentals[rental_id].status] :
                        \A u \in Users :
                            ~rental_transition(p, rentals[rental_id].item_id,
                                               rental_id, action, u)
    ]_vars

\* C1 happens: the only Rental is ongoing and a transition of it was refused
\* with InvalidTransition.
C1_Witness ==
    /\ response.op = "transition_rental"
    /\ response.kind = "InvalidTransition"
    /\ DOMAIN rentals = {1}
    /\ rentals[1].status = "ongoing"

\* C2: a Purchase transition requested by a valid requestor whose (action,
\* status) pair, the status being the one its SELECT returns, is not an edge
\* of the table is refused with InvalidTransition (400) on the spot and the
\* stored rows stay as they are; cancel on a sold Purchase is such a pair.
C2_IllegalPurchaseEdgeRefused ==
    [][(/\ FirstStep("transition_purchase")
        /\ ~(/\ response'.kind = "InvalidTransition"
             /\ response'.statusCode = 400
             /\ inflight' = inflight
             /\ purchases' = purchases))
       => \A p \in Procs :
            Arrives(p) =>
                \A purchase_id \in DOMAIN purchases :
                    \A action \in IllegalPurchaseActions[purchases[purchase_id].status] :
                        \A u \in Users :
                            ~purchase_transition(p, purchases[purchase_id].item_id,
                                                 purchase_id, action, u)
    ]_vars

\* C2 happens: the only Purchase is sold and a cancel of it was refused with
\* InvalidTransition.
C2_Witness ==
    /\ response.op = "transition_purchase"
    /\ response.kind = "InvalidTransition"
    /\ DOMAIN purchases = {1}
    /\ purchases[1].status = "sold"

OngoingRentals(item_id) ==
    {i \in DOMAIN rentals :
        rentals[i].item_id = item_id /\ rentals[i].status = "ongoing"}

ConfirmedPurchases(item_id) ==
    {i \in DOMAIN purchases :
        purchases[i].item_id = item_id /\ purchases[i].status = "confirmed"}

\* No invocation is in flight: every request so far has been answered.
Quiet == \A p \in Procs : inflight[p] = Idle

\* C3: in every reachable state in which no request is in flight, an item
\* that has an ongoing Rental has availability active_rental.
C3_OngoingRentalHoldsItem ==
    Quiet =>
    \A item_id \in Items :
        OngoingRentals(item_id) # {} => availability[item_id] = "active_rental"

\* C4: in every reachable state in which no request is in flight, an item
\* that has a confirmed Purchase has availability pending_purchase.
C4_ConfirmedPurchaseHoldsItem ==
    Quiet =>
    \A item_id \in Items :
        ConfirmedPurchases(item_id) # {} => availability[item_id] = "pending_purchase"

\* C5: in every reachable state at most one record holds an item: its ongoing
\* Rentals and confirmed Purchases together number at most one.
C5_AtMostOneHolder ==
    \A item_id \in Items :
        Cardinality(OngoingRentals(item_id))
            + Cardinality(ConfirmedPurchases(item_id)) <= 1

\* C6: every availability value a handler sends to the catalogue, and every
\* value the catalogue holds, is one of available, active_rental,
\* pending_purchase, sold.
C6_AvailabilityInEnum ==
    /\ \A item_id \in Items : availability[item_id] \in AvailabilityValues
    /\ availWrite # NoWrite => availWrite.availability \in AvailabilityValues

\* C6 happens: the step just taken sent a write and the catalogue applied
\* it.
C6_Witness ==
    /\ availWrite # NoWrite
    /\ availability[availWrite.item_id] = availWrite.availability
    /\ availability[availWrite.item_id] # InitialAvailability(availWrite.item_id)

\* The availability write the spec's table gives a Rental transition.
RentalWrite(branch) ==
    CASE branch = "start" -> "active_rental"
      [] branch = "cancel" -> "available"
      [] branch = "complete" -> "available"

\* The availability write the spec's table gives a Purchase transition.
PurchaseWrite(branch) ==
    CASE branch = "confirm" -> "pending_purchase"
      [] branch = "cancel" -> "available"
      [] branch = "complete" -> "sold"

\* The steps of a transition that follow one another in an invocation.
SuccessiveCalls(value) ==
    IF value = "none" THEN {<<"update", "notify">>}
    ELSE {<<"update", "patch">>, <<"patch", "notify">>}

\* C7: a Rental transition start, cancel or complete that passes the chain
\* takes the branch of its action. Its store write sets the status ongoing,
\* cancelled, completed respectively and sends nothing to the catalogue; the
\* call after it is the PATCH, which requests one availability write, for
\* the item of the request: active_rental for start, available for cancel
\* and for complete; the call after that is the message, with which no write
\* goes out; and success is returned after the message only, so that a
\* successful transition has requested exactly that write, once.
C7_RentalTransitionWrites ==
    [][/\ FirstStep("transition_rental") =>
            \A p \in Procs :
                inflight'[p] # inflight[p] =>
                \A action \in Actions, u \in Users :
                    rental_transition(p, inflight'[p].item_id, inflight'[p].id, action, u)
                    => /\ inflight'[p].branch = action
                       /\ inflight'[p].pc = "update"
                       /\ availWrite' = NoWrite
       /\ \A p \in Procs :
            (/\ Moved(p)
             /\ inflight[p].op = "transition_rental"
             /\ inflight[p].branch \in {"start", "cancel", "complete"})
            => LET pc == inflight[p].pc
                   branch == inflight[p].branch
               IN
               /\ inflight'[p] # Idle
                  => /\ <<pc, inflight'[p].pc>> \in SuccessiveCalls(RentalWrite(branch))
                     /\ inflight'[p].branch = branch
                     /\ inflight'[p].item_id = inflight[p].item_id
                     /\ inflight'[p].id = inflight[p].id
               /\ pc = "update"
                  => /\ rentals'[inflight[p].id].status = RentalTarget(branch)
                     /\ inflight'[p].pc = "patch"
                     /\ availWrite' = NoWrite
                     /\ availability' = availability
               /\ pc = "patch"
                  => /\ availWrite' = [item_id |-> inflight[p].item_id,
                                       availability |-> RentalWrite(branch)]
                     /\ inflight'[p].pc = "notify"
                     /\ rentals' = rentals
               /\ pc = "notify"
                  => /\ availWrite' = NoWrite
                     /\ availability' = availability
                     /\ rentals' = rentals
               /\ response'.kind = "ok" => pc = "notify"
    ]_vars

\* C7 happens: the start of the only Rental was answered 200, the Rental is
\* ongoing and its item, available before, is active_rental by the write of
\* the start.
C7_Witness ==
    /\ response.op = "transition_rental"
    /\ response.kind = "ok"
    /\ notification.admin = "active"
    /\ DOMAIN rentals = {1}
    /\ DOMAIN purchases = {}
    /\ rentals[1].status = "ongoing"
    /\ availability[rentals[1].item_id] = "active_rental"

\* C8: a Purchase transition that passes the chain takes the branch of its
\* action. Its store write sets the status confirmed, cancelled, sold
\* respectively and sends nothing to the catalogue; the call after it is the
\* PATCH, which requests one availability write, for the item of the
\* request: pending_purchase for confirm, available for cancel, sold for
\* complete; the call after that is the message, with which no write goes
\* out; and success is returned after the message only, so that a successful
\* transition has requested exactly that write, once.
C8_PurchaseTransitionWrites ==
    [][/\ FirstStep("transition_purchase") =>
            \A p \in Procs :
                inflight'[p] # inflight[p] =>
                \A action \in Actions, u \in Users :
                    purchase_transition(p, inflight'[p].item_id, inflight'[p].id, action, u)
                    => /\ inflight'[p].branch = action
                       /\ inflight'[p].pc = "update"
                       /\ availWrite' = NoWrite
       /\ \A p \in Procs :
            (/\ Moved(p)
             /\ inflight[p].op = "transition_purchase")
            => LET pc == inflight[p].pc
                   branch == inflight[p].branch
               IN
               /\ inflight'[p] # Idle
                  => /\ <<pc, inflight'[p].pc>> \in SuccessiveCalls(PurchaseWrite(branch))
                     /\ inflight'[p].branch = branch
                     /\ inflight'[p].item_id = inflight[p].item_id
                     /\ inflight'[p].id = inflight[p].id
               /\ pc = "update"
                  => /\ purchases'[inflight[p].id].status = PurchaseTarget(branch)
                     /\ inflight'[p].pc = "patch"
                     /\ availWrite' = NoWrite
                     /\ availability' = availability
               /\ pc = "patch"
                  => /\ availWrite' = [item_id |-> inflight[p].item_id,
                                       availability |-> PurchaseWrite(branch)]
                     /\ inflight'[p].pc = "notify"
                     /\ purchases' = purchases
               /\ pc = "notify"
                  => /\ availWrite' = NoWrite
                     /\ availability' = availability
                     /\ purchases' = purchases
               /\ response'.kind = "ok" => pc = "notify"
    ]_vars

\* C8 happens: the complete of the only Purchase was answered 200, the
\* Purchase is sold and its item is sold by the write of the complete.
C8_Witness ==
    /\ response.op = "transition_purchase"
    /\ response.kind = "ok"
    /\ notification.admin = "sold"
    /\ DOMAIN purchases = {1}
    /\ DOMAIN rentals = {}
    /\ purchases[1].status = "sold"
    /\ purchases[1].item_id = 1
    /\ availability[1] = "sold"

\* C9: a confirm of a Rental is taken on a row read as offered; its store
\* write sets the status confirmed; the call after the store write is the
\* message, not a PATCH; and no step of it, from the first to the one that
\* returns success, sends an availability write or changes an item's
\* availability.
C9_RentalConfirmKeepsAvailability ==
    [][\A p \in Procs :
        /\ (/\ inflight[p] = Idle
            /\ inflight'[p].op = "transition_rental"
            /\ inflight'[p].branch = "confirm")
           => /\ rentals[inflight'[p].id].status = "offered"
              /\ inflight'[p].pc = "update"
              /\ availWrite' = NoWrite
              /\ availability' = availability
        /\ (/\ Moved(p)
            /\ inflight[p].op = "transition_rental"
            /\ inflight[p].branch = "confirm")
           => /\ availWrite' = NoWrite
              /\ availability' = availability
              /\ inflight[p].pc \in {"update", "notify"}
              /\ inflight[p].pc = "update"
                 => /\ rentals'[inflight[p].id].status = "confirmed"
                    /\ inflight'[p].pc = "notify"
                    /\ inflight'[p].branch = "confirm"
              /\ response'.kind = "ok" => inflight[p].pc = "notify"
    ]_vars

\* C9 happens: the confirm of the only Rental was answered 200, the Rental
\* is confirmed and its item is available as before.
C9_Witness ==
    /\ response.op = "transition_rental"
    /\ response.kind = "ok"
    /\ notification.admin = "confirmed"
    /\ availWrite = NoWrite
    /\ DOMAIN rentals = {1}
    /\ DOMAIN purchases = {}
    /\ rentals[1].status = "confirmed"
    /\ availability[rentals[1].item_id] = "available"

\* The items a rental offer may start from: those that are available, and
\* those that are available with none of their Rentals confirmed or ongoing.
AvailableItems == {X \in Items : availability[X] = "available"}

UnheldItems ==
    {X \in AvailableItems : RentalsIn(X, {"confirmed", "ongoing"}) = {}}

\* The requests of the round trip, handled one after the other with every
\* collaborator answering, each from the state the request before it leaves.
\* create_rental by a renter r other than the owner o on an item X of ready
\* is admitted, passes the check, inserts and commits a Rental of X in
\* status offered under an id no Rental has, and answers 200. confirm by o
\* of a Rental read as offered stores confirmed, sends its message and
\* answers 200 with the Rental confirmed; start by o of one read as
\* confirmed stores ongoing, PATCHes X to active_rental and answers 200 with
\* the Rental ongoing and X active_rental; complete by o of one read as
\* ongoing stores completed, PATCHes X to available and answers 200 with the
\* Rental completed and X available.
RoundTrip(ready) ==
    /\ FirstStep("create_rental") =>
         \A p \in Procs, X \in ready, r \in Users :
             (/\ r # ItemOwner(X)
              /\ Arrives(p)
              /\ rental_admission(p, X, r))
             => /\ inflight'[p].pc = "create"
                /\ inflight'[p].item_id = X
    /\ FirstStep("transition_rental") =>
         \A p \in Procs, id \in DOMAIN rentals :
             LET X == rentals[id].item_id
                 o == ItemOwner(X)
                 step == CASE rentals[id].status = "offered" -> "confirm"
                           [] rentals[id].status = "confirmed" -> "start"
                           [] rentals[id].status = "ongoing" -> "complete"
                           [] OTHER -> "none"
             IN
             (/\ step # "none"
              /\ rentals[id].owner_id = o
              /\ Arrives(p)
              /\ rental_transition(p, X, id, step, o))
             => /\ inflight'[p].pc = "update"
                /\ inflight'[p].branch = step
                /\ inflight'[p].id = id
                /\ inflight'[p].item_id = X
    /\ \A p \in Procs :
         LET X == inflight[p].item_id
             id == inflight[p].id
             pc == inflight[p].pc
             branch == inflight[p].branch
         IN
         /\ (Moved(p) /\ inflight[p].op = "create_rental")
            => /\ pc = "create" => inflight'[p].pc = "check"
               /\ pc = "check" /\ X \in ready => inflight'[p].pc = "insert"
               /\ pc = "insert"
                  => /\ inflight'[p].pc = "commit"
                     /\ inflight'[p].id \notin DOMAIN rentals
                     /\ rentals' = rentals
               /\ pc = "commit"
                  => /\ inflight'[p].pc = "fetch"
                     /\ id \notin DOMAIN rentals
                     /\ DOMAIN rentals' = DOMAIN rentals \cup {id}
                     /\ \A i \in DOMAIN rentals : rentals'[i] = rentals[i]
                     /\ \E body \in RentalBodies :
                           rentals'[id] =
                               [owner_id |-> body.owner_id, renter_id |-> body.renter_id,
                                item_id |-> X, status |-> "offered",
                                price_per_day |-> body.price_per_day,
                                deposit |-> body.deposit]
               /\ pc = "fetch"
                  => /\ response'.kind = "ok"
                     /\ response'.statusCode = 200
                     /\ rentals'[id].status = "offered"
                     /\ availability' = availability
         /\ (Moved(p) /\ inflight[p].op = "transition_rental"
                      /\ branch \in {"confirm", "start", "complete"})
            => /\ pc = "update"
                  => /\ rentals'[id].status = RentalTarget(branch)
                     /\ availability' = availability
                     /\ inflight'[p].pc = IF branch = "confirm" THEN "notify" ELSE "patch"
               /\ pc = "patch"
                  => /\ inflight'[p].pc = "notify"
                     /\ availability'[X] = RentalWrite(branch)
               /\ pc = "notify"
                  => /\ response'.kind = "ok"
                     /\ response'.statusCode = 200
                     /\ rentals'[id].status = RentalTarget(branch)
                     /\ branch = "start" => availability'[X] = "active_rental"
                     /\ branch = "complete" => availability'[X] = "available"

\* C10 as stated: the round trip succeeds at every step from any available
\* item X with owner o and a renter r other than o.
C10_RoundTripFromAvailableItem == [][RoundTrip(AvailableItems)]_vars

\* C10 amended: the round trip succeeds at every step, yielding the statuses
\* offered, confirmed, ongoing, completed in turn with X active_rental after
\* start and available after complete, from any available item X none of
\* whose Rentals is confirmed or ongoing, with owner o and a renter r other
\* than o.
C10_RentalRoundTrip == [][RoundTrip(UnheldItems)]_vars

\* C10 happens: the only record is a Rental that went through the whole round
\* trip; its complete was answered 200 and the item is available again.
C10_Witness ==
    /\ DOMAIN rentals = {1}
    /\ DOMAIN purchases = {}
    /\ rentals[1].status = "completed"
    /\ response.op = "transition_rental"
    /\ response.kind = "ok"
    /\ notification.admin = "completed"
    /\ availWrite = NoWrite
    /\ availability[rentals[1].item_id] = "available"

(* ------------------------- admission of new offers --------------------- *)

Creations == {"create_rental", "create_purchase"}

\* The step is the first one of a creation request.
FirstCreationStep == FirstStep("create_rental") \/ FirstStep("create_purchase")

\* C11: with every collaborator answering, a create_rental or create_purchase
\* request whose credential the verifier does not find valid is answered
\* Unauthorized (401), whatever item it names, and no record is created.
C11_InvalidCredentialUnauthorized ==
    [][FirstCreationStep =>
        \A p \in Procs, token \in Tokens :
            (/\ token.verdict # "valid"
             /\ Arrives(p)
             /\ \/ rental_request("nominal", p, token)
                \/ purchase_request("nominal", p, token))
            => /\ response'.kind = "Unauthorized"
               /\ response'.statusCode = 401
               /\ rentals' = rentals
               /\ purchases' = purchases
    ]_vars

\* C12: once the catalogue has answered, a create_rental or create_purchase
\* request of a valid requestor who is the owner of the item is answered
\* SelfDealing (400) on the spot whatever the item's availability, and no
\* record is created.
C12_OwnerRefusedSelfDealing ==
    [][FirstCreationStep =>
        \A p \in Procs, item_id \in Items :
            (/\ Arrives(p)
             /\ \/ rental_admission(p, item_id, ItemOwner(item_id))
                \/ purchase_admission(p, item_id, ItemOwner(item_id)))
            => /\ response'.kind = "SelfDealing"
               /\ response'.statusCode = 400
               /\ inflight' = inflight
               /\ rentals' = rentals
               /\ purchases' = purchases
    ]_vars

\* C12 happens: a purchase offer was refused with SelfDealing while no item
\* of the catalogue was available (item 1 rented out, item 2 sold).
C12_Witness ==
    /\ response.op = "create_purchase"
    /\ response.kind = "SelfDealing"
    /\ availability[1] = "active_rental"
    /\ availability[2] = "sold"

BlockingAvailability == {"active_rental", "pending_purchase", "sold"}

\* C13: once the catalogue has answered, a create_rental or create_purchase
\* request of a valid requestor other than the owner on an item whose
\* availability is active_rental, pending_purchase or sold is answered
\* ItemNotAvailable (400) on the spot and creates no record; an invocation
\* goes on to the store only when the availability it read is available, and
\* a record enters a table only by the commit of the INSERT of such an
\* invocation, for the item it read.
C13_BlockedItemNotAvailable ==
    [][/\ FirstCreationStep =>
            \A p \in Procs, item_id \in Items, u \in Users :
                (/\ u # ItemOwner(item_id)
                 /\ availability[item_id] \in BlockingAvailability
                 /\ Arrives(p)
                 /\ \/ rental_admission(p, item_id, u)
                    \/ purchase_admission(p, item_id, u))
                => /\ response'.kind = "ItemNotAvailable"
                   /\ response'.statusCode = 400
                   /\ inflight' = inflight
                   /\ rentals' = rentals
                   /\ purchases' = purchases
       /\ \A p \in Procs :
            (inflight[p] = Idle /\ inflight'[p].op \in Creations)
            => /\ availability[inflight'[p].item_id] = "available"
               /\ inflight'[p].pc = "create"
       /\ DOMAIN rentals' # DOMAIN rentals
            => \E p \in Procs :
                /\ Moved(p)
                /\ inflight[p].op = "create_rental"
                /\ inflight[p].pc = "commit"
                /\ DOMAIN rentals' = DOMAIN rentals \cup {inflight[p].id}
                /\ rentals'[inflight[p].id].item_id = inflight[p].item_id
       /\ DOMAIN purchases' # DOMAIN purchases
            => \E p \in Procs :
                /\ Moved(p)
                /\ inflight[p].op = "create_purchase"
                /\ inflight[p].pc = "commit"
                /\ DOMAIN purchases' = DOMAIN purchases \cup {inflight[p].id}
                /\ purchases'[inflight[p].id].item_id = inflight[p].item_id
       /\ \A p \in Procs :
            (Moved(p) /\ inflight[p].op \in Creations /\ inflight'[p] # Idle)
            => /\ inflight'[p].item_id = inflight[p].item_id
               /\ <<inflight[p].pc, inflight'[p].pc>>
                      \in {<<"create", "check">>, <<"check", "insert">>,
                          <<"insert", "commit">>, <<"commit", "fetch">>}
    ]_vars

\* C13 happens: a rental offer was refused with ItemNotAvailable on an item
\* that has a purchase pending.
C13_Witness ==
    /\ response.op = "create_rental"
    /\ response.kind = "ItemNotAvailable"
    /\ response.message = "There are pending purchases"
    /\ availability[1] = "pending_purchase"

\* C14 as stated: once the catalogue has answered, a purchase offer for an
\* item whose availability is active_rental is answered ItemNotAvailable
\* with the active-rentals message for every verified requestor identity.
C14_ActiveRentalBlocksEveryRequestor ==
    [][FirstStep("create_purchase") =>
        \A p \in Procs, item_id \in Items, u \in Users :
            (/\ availability[item_id] = "active_rental"
             /\ Arrives(p)
             /\ purchase_admission(p, item_id, u))
            => /\ response'.kind = "ItemNotAvailable"
               /\ response'.message = "There are active rentals"
    ]_vars

\* C14 amended: once the catalogue has answered, a purchase offer for an
\* item whose availability is active_rental is answered ItemNotAvailable
\* (400) with the active-rentals message for every verified requestor
\* identity other than the item's owner, and creates no record.
C14_ActiveRentalBlocksNonOwner ==
    [][FirstStep("create_purchase") =>
        \A p \in Procs, item_id \in Items, u \in Users :
            (/\ availability[item_id] = "active_rental"
             /\ u # ItemOwner(item_id)
             /\ Arrives(p)
             /\ purchase_admission(p, item_id, u))
            => /\ response'.kind = "ItemNotAvailable"
               /\ response'.statusCode = 400
               /\ response'.message = "There are active rentals"
               /\ inflight' = inflight
               /\ purchases' = purchases
    ]_vars

\* C14 happens: a purchase offer was refused with the active-rentals message
\* while the item has an ongoing Rental.
C14_Witness ==
    /\ response.op = "create_purchase"
    /\ response.kind = "ItemNotAvailable"
    /\ response.message = "There are active rentals"
    /\ availability[1] = "active_rental"
    /\ OngoingRentals(1) # {}

\* C15 as stated: with the store answering, a create_rental by a valid
\* requestor other than the owner that has read the item as available is
\* answered Conflict and creates no record whenever its check finds a Rental
\* of the item that is offered, confirmed or ongoing.
C15_AnyOpenRentalBlocksRental ==
    [][\A p \in Procs :
        (/\ Takes(p, "create_rental", "check")
         /\ RentalsIn(inflight[p].item_id, {"offered", "confirmed", "ongoing"}) # {})
        => /\ response'.kind = "Conflict"
           /\ rentals' = rentals
    ]_vars

\* C15 amended: with the store answering, a create_rental by a valid
\* requestor other than the owner that has read the item as available is
\* answered Conflict (403) and creates no record whenever its check finds a
\* Rental of the item that is confirmed or ongoing; when every Rental its
\* check finds is offered, cancelled or completed it goes on to the INSERT,
\* whose commit adds an offered Rental of the item to the table.
C15_HeldRentalBlocksRental ==
    [][\A p \in Procs :
        /\ Takes(p, "create_rental", "check")
           => IF RentalsIn(inflight[p].item_id, {"confirmed", "ongoing"}) # {}
              THEN /\ response'.kind = "Conflict"
                   /\ response'.statusCode = 403
                   /\ inflight'[p] = Idle
                   /\ rentals' = rentals
                   /\ purchases' = purchases
              ELSE /\ inflight'[p].pc = "insert"
                   /\ response' = NoReply
        /\ Takes(p, "create_rental", "insert")
           => inflight'[p].pc = "commit"
        /\ Takes(p, "create_rental", "commit")
           => /\ inflight[p].id \notin DOMAIN rentals
              /\ DOMAIN rentals' = DOMAIN rentals \cup {inflight[p].id}
              /\ \E body \in RentalBodies :
                    rentals'[inflight[p].id] =
                        [owner_id |-> body.owner_id, renter_id |-> body.renter_id,
                         item_id |-> inflight[p].item_id, status |-> "offered",
                         price_per_day |-> body.price_per_day,
                         deposit |-> body.deposit]
        /\ Takes(p, "create_rental", "fetch")
           => response'.kind = "ok" /\ response'.statusCode = 200
    ]_vars

\* C15 happens: a rental offer on an available item was refused with
\* Conflict while the item's only Rental is confirmed.
C15_Witness ==
    /\ response.op = "create_rental"
    /\ response.kind = "Conflict"
    /\ availability[1] = "available"
    /\ DOMAIN rentals = {1}
    /\ rentals[1].item_id = 1
    /\ rentals[1].status = "confirmed"

\* C16: with the store answering and the Rentals table there, a
\* create_purchase by a valid requestor other than the owner that has read
\* the item as available is answered Conflict exactly when its check finds
\* a Rental of the item that is confirmed or ongoing, and goes on to the
\* INSERT otherwise, a merely offered Rental notwithstanding.
C16_HeldRentalBlocksPurchase ==
    [][\A p \in Procs :
        (/\ Takes(p, "create_purchase", "check")
         /\ "Rentals" \in tables)
        => IF RentalsIn(inflight[p].item_id, {"confirmed", "ongoing"}) # {}
           THEN /\ response'.kind = "Conflict"
                /\ purchases' = purchases
           ELSE inflight'[p].pc = "insert"
    ]_vars

\* The Purchases of an item whose status is one of statuses.
PurchasesIn(item_id, statuses) ==
    {i \in DOMAIN purchases :
        purchases[i].item_id = item_id /\ purchases[i].status \in statuses}

\* The invocation that ends with this step ends on a failure of the store.
StoreFailed == response'.kind \in {"InternalFailure", "Unhandled", "NoResponse"}

\* C17: a purchase offer by a valid requestor other than the owner that has
\* read the item as available, and whose check finds no Rental that blocks
\* it, is not blocked by the Purchases the item already has: unless the store
\* fails, its check goes on to the INSERT, the commit of the INSERT adds a
\* Purchase of the item with status offered and leaves the earlier Purchases
\* as they are, and the request is answered 200. Both non-owner identities are
\* requestors of either offer.
C17_SecondPurchaseOfferAdmitted ==
    [][\A p \in Procs :
        /\ (/\ Takes(p, "create_purchase", "check")
            /\ "Rentals" \in tables
            /\ RentalsIn(inflight[p].item_id, {"offered", "confirmed", "ongoing"}) = {}
            /\ PurchasesIn(inflight[p].item_id, {"offered"}) # {})
           => \/ StoreFailed
              \/ /\ inflight'[p].pc = "insert"
                 /\ response' = NoReply
        /\ Takes(p, "create_purchase", "insert")
           => /\ purchases' = purchases
              /\ StoreFailed \/ inflight'[p].pc = "commit"
        /\ Takes(p, "create_purchase", "commit")
           => \/ StoreFailed /\ purchases' = purchases
              \/ /\ inflight'[p].pc = "fetch"
                 /\ inflight[p].id \notin DOMAIN purchases
                 /\ DOMAIN purchases' = DOMAIN purchases \cup {inflight[p].id}
                 /\ purchases'[inflight[p].id].status = "offered"
                 /\ purchases'[inflight[p].id].item_id = inflight[p].item_id
                 /\ \A i \in DOMAIN purchases : purchases'[i] = purchases[i]
        /\ Takes(p, "create_purchase", "fetch")
           => \/ StoreFailed
              \/ response'.kind = "ok" /\ response'.statusCode = 200
        /\ \A u \in Users \ {ItemOwner(1)} :
              (/\ FirstStep("create_purchase")
               /\ availability[1] = "available"
               /\ Arrives(p)
               /\ purchase_admission(p, 1, u))
              => inflight'[p].pc = "create"
    ]_vars

\* C17 happens: the second of two purchase offers for item 1 was admitted and
\* both Purchases are offered.
C17_Witness ==
    /\ response.op = "create_purchase"
    /\ response.kind = "ok"
    /\ DOMAIN purchases = {1, 2}
    /\ \A i \in 1..2 : purchases[i].item_id = 1 /\ purchases[i].status = "offered"
    /\ availability[1] = "available"

AdmissionRejections == {"Unauthorized", "SelfDealing", "ItemNotAvailable", "Conflict"}

\* C18: a create_rental or create_purchase request answered Unauthorized,
\* SelfDealing, ItemNotAvailable or Conflict is answered by its first step
\* or by its check, and no step of a creation up to the check changes a
\* Rental, a Purchase or an item's availability or sends an availability
\* write.
C18_RejectedCreationChangesNothing ==
    [][/\ (response'.op \in Creations /\ response'.kind \in AdmissionRejections)
          => /\ rentals' = rentals
             /\ purchases' = purchases
             /\ availability' = availability
             /\ availWrite' = NoWrite
             /\ \/ inflight' = inflight
                \/ \E p \in Procs : Takes(p, response'.op, "check")
       /\ \A p \in Procs :
            (\/ inflight[p] = Idle /\ inflight'[p].op \in Creations
             \/ Takes(p, "create_rental", "create")
             \/ Takes(p, "create_purchase", "create")
             \/ Takes(p, "create_rental", "check")
             \/ Takes(p, "create_purchase", "check"))
            => /\ rentals' = rentals
               /\ purchases' = purchases
               /\ availability' = availability
               /\ availWrite' = NoWrite
    ]_vars

\* C18 happens: a rental offer was refused with Conflict and the tables hold
\* the one confirmed Rental that blocked it and nothing else.
C18_Witness ==
    /\ response.op = "create_rental"
    /\ response.kind = "Conflict"
    /\ response.statusCode = 403
    /\ DOMAIN rentals = {1}
    /\ rentals[1].status = "confirmed"
    /\ DOMAIN purchases = {}
    /\ availWrite = NoWrite

\* Who may request an action on a record, by the transition table.
MayAct(action, u, owner_id, counterparty_id) ==
    IF action = "cancel" THEN u \in {owner_id, counterparty_id} ELSE u = owner_id

\* C19: a Rental transition whose (action, status) pair, with the status its
\* SELECT returns, is an edge of the table and whose requestor is not the
\* record's owner, nor for cancel the record's renter, is answered Forbidden
\* on the spot: the Rentals, every item's availability and the notification
\* channel are untouched and no availability write is sent. An authorized
\* requestor is not answered Forbidden, and a stored status is changed only
\* by the store write of a request whose requestor is authorized for the
\* action it asked.
C19_RentalActorEnforced ==
    [][/\ FirstStep("transition_rental") =>
            \A p \in Procs :
                Arrives(p) =>
                    \A rental_id \in DOMAIN rentals :
                        \A action \in LegalRentalActions[rentals[rental_id].status] :
                            \A u \in Users :
                                \/ IF MayAct(action, u, rentals[rental_id].owner_id,
                                             rentals[rental_id].renter_id)
                                   THEN /\ response'.kind # "Forbidden"
                                        /\ inflight'[p].requestor = u
                                        /\ inflight'[p].branch = action
                                        /\ inflight'[p].id = rental_id
                                   ELSE /\ response'.kind = "Forbidden"
                                        /\ inflight' = inflight
                                        /\ rentals' = rentals
                                        /\ availability' = availability
                                        /\ availWrite' = NoWrite
                                        /\ notification' = NoMessage
                                \/ ~rental_transition(p, rentals[rental_id].item_id,
                                                     rental_id, action, u)
       /\ \A id \in DOMAIN rentals :
            rentals'[id].status # rentals[id].status
            => \E p \in Procs :
                /\ Takes(p, "transition_rental", "update")
                /\ inflight[p].id = id
                /\ MayAct(inflight[p].branch, inflight[p].requestor,
                          rentals[id].owner_id, rentals[id].renter_id)
    ]_vars

\* C19 happens: a transition of the only Rental, which is confirmed, was
\* refused with Forbidden.
C19_Witness ==
    /\ response.op = "transition_rental"
    /\ response.kind = "Forbidden"
    /\ DOMAIN rentals = {1}
    /\ rentals[1].status = "confirmed"
    /\ notification = NoMessage

\* C20: a Purchase transition whose (action, status) pair, with the status
\* its SELECT returns, is an edge of the table and whose requestor is not
\* the record's owner, nor for cancel the record's buyer, is answered
\* Forbidden on the spot and the Purchases, every item's availability and the
\* notification channel are untouched; cancel of an offered Purchase by an
\* identity that is neither its owner nor its buyer is such a request. A
\* stored status is changed only by the store write of a request whose
\* requestor is authorized for the action it asked.
C20_PurchaseActorEnforced ==
    [][/\ FirstStep("transition_purchase") =>
            \A p \in Procs :
                Arrives(p) =>
                    \A purchase_id \in DOMAIN purchases :
                        \A action \in LegalPurchaseActions[purchases[purchase_id].status] :
                            \A u \in Users :
                                \/ IF MayAct(action, u, purchases[purchase_id].owner_id,
                                             purchases[purchase_id].buyer_id)
                                   THEN /\ response'.kind # "Forbidden"
                                        /\ inflight'[p].requestor = u
                                        /\ inflight'[p].branch = action
                                        /\ inflight'[p].id = purchase_id
                                   ELSE /\ response'.kind = "Forbidden"
                                        /\ inflight' = inflight
                                        /\ purchases' = purchases
                                        /\ availability' = availability
                                        /\ availWrite' = NoWrite
                                        /\ notification' = NoMessage
                                \/ ~purchase_transition(p, purchases[purchase_id].item_id,
                                                        purchase_id, action, u)
       /\ \A id \in DOMAIN purchases :
            purchases'[id].status # purchases[id].status
            => \E p \in Procs :
                /\ Takes(p, "transition_purchase", "update")
                /\ inflight[p].id = id
                /\ MayAct(inflight[p].branch, inflight[p].requestor,
                          purchases[id].owner_id, purchases[id].buyer_id)
    ]_vars

\* C20 happens: a transition of the only Purchase, which is offered, was
\* refused with Forbidden.
C20_Witness ==
    /\ response.op = "transition_purchase"
    /\ response.kind = "Forbidden"
    /\ DOMAIN purchases = {1}
    /\ purchases[1].status = "offered"

(* ------------------- refusals of transition requests ------------------- *)

Transitions == {"transition_rental", "transition_purchase"}

\* The step is the first one of a transition request.
FirstTransitionStep ==
    FirstStep("transition_rental") \/ FirstStep("transition_purchase")

\* What a request that is answered on the spot without effect leaves.
NothingDone ==
    /\ inflight' = inflight
    /\ rentals' = rentals
    /\ purchases' = purchases
    /\ availability' = availability
    /\ availWrite' = NoWrite
    /\ notification' = NoMessage

\* C21: with a valid credential and the store answering the SELECT, a
\* transition request whose (item id, record id) pair matches no stored row,
\* because no record has that id or because the record of that id belongs to
\* another item, is answered NotFound (404): no record and no item's
\* availability changes, no availability write is sent and no notification
\* (a first step that is not such an answer is the step of no such request).
C21_UnmatchedPairNotFound ==
    [][/\ (/\ FirstStep("transition_rental")
           /\ ~(/\ response'.kind = "NotFound"
                /\ response'.statusCode = 404
                /\ NothingDone)) =>
            \A p \in Procs :
                Arrives(p) =>
                    \A item_id \in Items, id \in 1..MaxRecords :
                        ~(id \in DOMAIN rentals /\ rentals[id].item_id = item_id) =>
                            \A u \in Users : ~rental_lookup(p, item_id, id, u)
       /\ (/\ FirstStep("transition_purchase")
           /\ ~(/\ response'.kind = "NotFound"
                /\ response'.statusCode = 404
                /\ NothingDone)) =>
            \A p \in Procs :
                Arrives(p) =>
                    \A item_id \in Items, id \in 1..MaxRecords :
                        ~(id \in DOMAIN purchases /\ purchases[id].item_id = item_id) =>
                            \A u \in Users : ~purchase_lookup(p, item_id, id, u)
    ]_vars

\* C21 happens: a Rental transition was answered NotFound while both record
\* ids are taken by Rentals of item 1, so that the request named a stored
\* record id under another item id.
C21_Witness ==
    /\ response.op = "transition_rental"
    /\ response.kind = "NotFound"
    /\ DOMAIN rentals = 1..MaxRecords
    /\ \A i \in DOMAIN rentals : rentals[i].item_id = 1

\* C22: with the store connection open, a transition_rental or
\* transition_purchase request whose credential the verifier does not find
\* valid is answered Unauthorized (401), whatever record and action it names,
\* and every record and every item's availability stay as they were.
C22_TransitionInvalidCredential ==
    [][FirstTransitionStep =>
        \A p \in Procs, token \in Tokens :
            (/\ token.verdict # "valid"
             /\ Arrives(p)
             /\ \/ rental_update_request("nominal", p, token)
                \/ purchase_update_request("nominal", p, token))
            => /\ response'.kind = "Unauthorized"
               /\ response'.statusCode = 401
               /\ rentals' = rentals
               /\ purchases' = purchases
               /\ availability' = availability
    ]_vars

\* C23: each of the verifier's non-valid outcomes - no token, a token that
\* fails verification, the verifier not answering - makes each of the four
\* operations answer Unauthorized; none of them ends the invocation without
\* that response.
C23_NonValidAlwaysUnauthorized ==
    [][(FirstCreationStep \/ FirstTransitionStep) =>
        \A verdict \in {"missing", "rejected", "error"} :
        \A p \in Procs, token \in Tokens :
            (/\ token.verdict = verdict
             /\ Arrives(p)
             /\ \/ rental_request("nominal", p, token)
                \/ purchase_request("nominal", p, token)
                \/ rental_update_request("nominal", p, token)
                \/ purchase_update_request("nominal", p, token))
            => /\ response'.kind = "Unauthorized"
               /\ response'.kind \notin {"Unhandled", "Exit", "NoResponse"}
    ]_vars

(* --------------------- what a committed write leaves ------------------- *)

\* C24: a Rental or Purchase transition whose store write has succeeded
\* goes on whatever becomes of its two other calls. The PATCH leaves the
\* tables as they are and is followed by the message, whether the catalogue
\* applies the write or not; the message leaves the tables as they are and
\* is followed by the success response (200), whether the websocket
\* delivers it or not and whether the PATCH before it was applied or not;
\* and the record has the new status when that response is returned.
C24_SideEffectFailureKeepsCommit ==
    [][\A p \in Procs :
        (Moved(p) /\ inflight[p].op \in Transitions) =>
            LET id == inflight[p].id
                branch == inflight[p].branch
                committed ==
                    IF inflight[p].op = "transition_rental"
                    THEN rentals'[id].status = RentalTarget(branch)
                    ELSE purchases'[id].status = PurchaseTarget(branch)
            IN
            /\ inflight[p].pc = "patch"
               => /\ rentals' = rentals
                  /\ purchases' = purchases
                  /\ committed
                  /\ response' = NoReply
                  /\ inflight'[p].pc = "notify"
            /\ inflight[p].pc = "notify"
               => /\ rentals' = rentals
                  /\ purchases' = purchases
                  /\ committed
                  /\ notification' # NoMessage
                  /\ response'.op = inflight[p].op
                  /\ response'.kind = "ok"
                  /\ response'.statusCode = 200
                  /\ inflight'[p] = Idle
    ]_vars

\* C24 happens: the start of the only Rental was answered 200 and the Rental
\* is ongoing although the catalogue kept available and the notification
\* was not delivered.
C24_Witness ==
    /\ response.op = "transition_rental"
    /\ response.kind = "ok"
    /\ response.statusCode = 200
    /\ notification.admin = "active"
    /\ ~notification.delivered
    /\ DOMAIN rentals = {1}
    /\ DOMAIN purchases = {}
    /\ rentals[1].status = "ongoing"
    /\ availability[rentals[1].item_id] = "available"

\* C25: in every state that requests handled one after the other reach, a
\* Purchase has a purchase_date exactly when its status is sold.
C25_PurchaseDateIffSold ==
    \A i \in DOMAIN purchases :
        (purchases[i].purchase_date # "NULL") <=> (purchases[i].status = "sold")

\* C25 happens: one Purchase went to sold and carries its date, the other
\* was cancelled and carries none.
C25_Witness ==
    /\ DOMAIN purchases = {1, 2}
    /\ purchases[1].status = "sold"
    /\ purchases[1].purchase_date = "NOW"
    /\ purchases[2].status = "cancelled"
    /\ purchases[2].purchase_date = "NULL"

\* C26: also when creations overlap, the INSERT of an admitted creation
\* takes an id that no row of its table has and no other creation in flight
\* has taken, for a row of its item with status offered; its commit adds
\* exactly that row under that id to its table (the other rows and the other
\* table stay as they are); and the row the handler reads back for its 200
\* is the row it inserted, which is the row of no other creation in flight.
C26_CreationInsertsOneFreshRecord ==
    [][\A p \in Procs :
        /\ (Moved(p) /\ inflight[p].pc = "insert") =>
              LET id == inflight'[p].id IN
              /\ inflight'[p].pc = "commit"
              /\ inflight'[p].row.status = "offered"
              /\ inflight'[p].row.item_id = inflight[p].item_id
              /\ id \notin (IF inflight[p].op = "create_rental"
                            THEN DOMAIN rentals ELSE DOMAIN purchases)
              /\ \A q \in Procs \ {p} :
                    (inflight[q].op = inflight[p].op
                        /\ inflight[q].pc \in {"commit", "fetch"})
                    => inflight[q].id # id
              /\ rentals' = rentals
              /\ purchases' = purchases
        /\ (Moved(p) /\ inflight[p].pc = "commit") =>
              LET id == inflight[p].id IN
              /\ inflight'[p].pc = "fetch"
              /\ inflight'[p].id = id
              /\ IF inflight[p].op = "create_rental"
                 THEN /\ id \notin DOMAIN rentals
                      /\ DOMAIN rentals' = DOMAIN rentals \cup {id}
                      /\ rentals'[id] = inflight[p].row
                      /\ \A i \in DOMAIN rentals : rentals'[i] = rentals[i]
                      /\ purchases' = purchases
                 ELSE /\ id \notin DOMAIN purchases
                      /\ DOMAIN purchases' = DOMAIN purchases \cup {id}
                      /\ purchases'[id] = inflight[p].row
                      /\ \A i \in DOMAIN purchases : purchases'[i] = purchases[i]
                      /\ rentals' = rentals
        /\ (Moved(p) /\ inflight[p].pc = "fetch") =>
              /\ response'.kind = "ok"
              /\ response'.op = inflight[p].op
              /\ response'.id = inflight[p].id
              /\ rentals' = rentals
              /\ purchases' = purchases
              /\ \A q \in Procs \ {p} :
                    (inflight[q].op = inflight[p].op /\ inflight[q].pc = "fetch")
                    => inflight[q].id # response'.id
    ]_vars

\* C26 happens: two create_rental requests overlap, both have inserted and
\* committed, and the one that inserted first has been answered with row 1
\* while row 2 of the other is already in the table.
C26_Witness ==
    \E q \in Procs :
        /\ response.op = "create_rental"
        /\ response.kind = "ok"
        /\ response.id = 1
        /\ inflight[q].op = "create_rental"
        /\ inflight[q].pc = "fetch"
        /\ inflight[q].id = 2
        /\ DOMAIN rentals = {1, 2}
        /\ rentals[1].status = "offered"
        /\ rentals[2].status = "offered"

\* C27: no request removes a row of either table, and every row keeps its
\* owner, its renter or buyer, its item and its economic terms: a Rental row
\* changes in its status only, a Purchase row in its status and
\* purchase_date only.
C27_RecordsKeptAndFrozen ==
    [][/\ DOMAIN rentals \subseteq DOMAIN rentals'
       /\ DOMAIN purchases \subseteq DOMAIN purchases'
       /\ \A i \in DOMAIN rentals :
             [rentals'[i] EXCEPT !.status = rentals[i].status] = rentals[i]
       /\ \A i \in DOMAIN purchases :
             [purchases'[i] EXCEPT !.status = purchases[i].status,
                                   !.purchase_date = purchases[i].purchase_date]
                 = purchases[i]
    ]_vars

\* C27 happens: a Purchase was completed and the sold row still carries the
\* parties, the item and the price of the offer.
C27_Witness ==
    /\ response.op = "transition_purchase"
    /\ response.kind = "ok"
    /\ notification.admin = "sold"
    /\ \E i \in DOMAIN purchases :
          /\ purchases[i].status = "sold"
          /\ purchases[i].owner_id = "o"
          /\ purchases[i].buyer_id = "r"
          /\ purchases[i].item_id = 1
          /\ purchases[i].purchase_price \in PurchasePrices

\* C28: a create_rental or create_purchase request that passed the owner
\* test and the availability chain and then met a failure of the store (it
\* ended neither with its 200 nor with Conflict) is answered with the
\* internal-failure response (500) and has inserted no record.
C28_StoreFailureIs500 ==
    [][\A p \in Procs :
        (/\ Moved(p)
         /\ inflight[p].op \in Creations
         /\ inflight'[p] = Idle
         /\ response'.kind \notin {"ok", "Conflict"})
        => /\ response'.kind = "InternalFailure"
           /\ response'.statusCode = 500
           /\ inflight[p].pc # "fetch"
           /\ rentals' = rentals
           /\ purchases' = purchases
    ]_vars

\* C29: in every interleaving of overlapping transition requests, each
\* change of a stored status is an edge of the record's transition table:
\* the new status is the target of an action that is legal from the old one.
\* In particular a Rental that is cancelled or completed and a Purchase that
\* is cancelled or sold keep their status.
C29_OverlappingTransitionsFollowEdges ==
    [][/\ \A i \in DOMAIN rentals :
             rentals'[i].status # rentals[i].status =>
                 \E action \in Actions :
                     /\ <<action, rentals[i].status>> \in LegalRentalEdges
                     /\ rentals'[i].status = RentalTarget(action)
       /\ \A i \in DOMAIN purchases :
             purchases'[i].status # purchases[i].status =>
                 \E action \in Actions \ {"start"} :
                     /\ <<action, purchases[i].status>> \in LegalPurchaseEdges
                     /\ purchases'[i].status = PurchaseTarget(action)
    ]_vars

\* The availability an item holds on behalf of a Rental that is about to
\* take the given branch: active_rental for the ongoing Rental that
\* completes; a Rental that starts or is cancelled holds nothing yet and
\* leaves the item available.
RentalHeld(branch) == IF branch = "complete" THEN {"active_rental"} ELSE {"available"}

\* The availability an item holds on behalf of a Purchase that is about to
\* take the given branch: nothing for the offered one that is confirmed,
\* pending_purchase for the confirmed one that completes, either for the
\* one that is cancelled (it is offered or confirmed).
PurchaseHeld(branch) ==
    CASE branch = "confirm" -> {"available"}
      [] branch = "complete" -> {"pending_purchase"}
      [] branch = "cancel" -> {"available", "pending_purchase"}

\* C31: a transition changes an item's availability only when the value it
\* replaces is the one the item held on behalf of the transitioning record:
\* whenever the PATCH of a transition changes the item's availability, the
\* prior availability is one that belongs to the status the record had when
\* the request took its branch.
C31_AvailabilityWriteExpectsPrior ==
    [][\A p \in Procs :
        (/\ Moved(p)
         /\ availability'[inflight[p].item_id] # availability[inflight[p].item_id])
        => availability[inflight[p].item_id]
              \in (IF inflight[p].op = "transition_rental"
                   THEN RentalHeld(inflight[p].branch)
                   ELSE PurchaseHeld(inflight[p].branch))
    ]_vars

\* C32: an invocation of a creation or of a transition that acquired a
\* store connection has released it when it returns, whatever its exit path:
\* no invocation ends with its connection still open.
C32_ConnectionReleased ==
    response.op \in Creations \cup Transitions => connection # "open"

\* The transitions that send a write to the catalogue: all but the confirm
\* of a Rental.
HasWrite(op, branch) == ~(op = "transition_rental" /\ branch = "confirm")

\* C33: the calls of a transition follow one another in this order: the
\* status write and its commit, then the write to the catalogue, when the
\* action has one, then the message to the websocket, then the success
\* response. A status is written by the first of them only, a write goes to
\* the catalogue in the second only and a message to the websocket in the
\* third only; each of the two external calls is followed by the next call
\* whether it succeeded or not, so that none is made twice.
C33_CommitThenPatchThenNotify ==
    [][\A p \in Procs :
        (Moved(p) /\ inflight[p].op \in Transitions) =>
            LET op == inflight[p].op
                pc == inflight[p].pc
                branch == inflight[p].branch
            IN
            /\ pc \in {"update", "patch", "notify"}
            /\ inflight'[p] # Idle
               => /\ inflight'[p].op = op
                  /\ inflight'[p].branch = branch
                  /\ inflight'[p].id = inflight[p].id
                  /\ inflight'[p].item_id = inflight[p].item_id
            /\ pc = "update"
               => /\ availWrite' = NoWrite
                  /\ notification' = NoMessage
                  /\ availability' = availability
                  /\ inflight'[p] # Idle
                     => /\ inflight'[p].pc =
                              IF HasWrite(op, branch) THEN "patch" ELSE "notify"
                        /\ IF op = "transition_rental"
                           THEN rentals'[inflight[p].id].status = RentalTarget(branch)
                           ELSE purchases'[inflight[p].id].status = PurchaseTarget(branch)
            /\ pc = "patch"
               => /\ HasWrite(op, branch)
                  /\ availWrite' # NoWrite
                  /\ notification' = NoMessage
                  /\ rentals' = rentals
                  /\ purchases' = purchases
                  /\ inflight'[p].pc = "notify"
            /\ pc = "notify"
               => /\ notification' # NoMessage
                  /\ availWrite' = NoWrite
                  /\ availability' = availability
                  /\ rentals' = rentals
                  /\ purchases' = purchases
                  /\ inflight'[p] = Idle
                  /\ response'.kind = "ok"
            /\ response'.kind = "ok" => pc = "notify"
    ]_vars

\* C33 happens: the confirm of the only Purchase was answered 200 after its
\* three calls: the Purchase is confirmed, the PATCH has set the item to
\* pending_purchase and the message was delivered.
C33_Witness ==
    /\ response.op = "transition_purchase"
    /\ response.kind = "ok"
    /\ notification.admin = "confirmed"
    /\ notification.delivered
    /\ DOMAIN purchases = {1}
    /\ purchases[1].status = "confirmed"
    /\ availability[purchases[1].item_id] = "pending_purchase"
    /\ connection = "closed"

\* C34: the admin tag of the message a successful transition sends is the
\* status its store write has stored, except that the Rental start, which
\* stores ongoing, sends "active"; the tags of Purchase transitions are
\* confirmed, cancelled and sold. The message is sent by the call that
\* precedes the success response, for the branch the store write was made
\* in.
C34_AdminTagIsNewStatus ==
    [][\A p \in Procs :
        /\ (/\ Takes(p, "transition_rental", "update")
            /\ rentals' # rentals)
           => rentals'[inflight[p].id].status = RentalTarget(inflight[p].branch)
        /\ (/\ Takes(p, "transition_purchase", "update")
            /\ purchases' # purchases)
           => purchases'[inflight[p].id].status = PurchaseTarget(inflight[p].branch)
        /\ (/\ Moved(p)
            /\ inflight[p].op \in Transitions
            /\ inflight'[p] # Idle)
           => /\ inflight'[p].branch = inflight[p].branch
              /\ inflight'[p].id = inflight[p].id
              /\ notification' = NoMessage
        /\ (/\ Moved(p)
            /\ inflight[p].op = "transition_rental"
            /\ response'.kind = "ok")
           => /\ inflight[p].pc = "notify"
              /\ notification'.admin =
                  IF RentalTarget(inflight[p].branch) = "ongoing" THEN "active"
                  ELSE RentalTarget(inflight[p].branch)
        /\ (/\ Moved(p)
            /\ inflight[p].op = "transition_purchase"
            /\ response'.kind = "ok")
           => /\ inflight[p].pc = "notify"
              /\ notification'.admin = PurchaseTarget(inflight[p].branch)
              /\ notification'.admin \in {"confirmed", "cancelled", "sold"}
    ]_vars

\* C34 happens: the request that has just ended started the only Rental,
\* which is stored as ongoing while the message carries the tag "active".
C34_Witness ==
    /\ response.op = "transition_rental"
    /\ response.kind = "ok"
    /\ DOMAIN rentals = {1}
    /\ rentals[1].status = "ongoing"
    /\ notification.admin = "active"
    /\ notification.delivered

\* C35: the message a successful transition sends names the record's owner
\* as owner, the record's renter (Rental) or buyer (Purchase) as
\* counterparty and the requestor of the transition as sender, for every
\* action and every requestor the action admits.
C35_NotificationNamesParties ==
    [][\A p \in Procs :
        /\ (/\ Moved(p)
            /\ inflight[p].op = "transition_rental"
            /\ response'.kind = "ok")
           => /\ notification'.ownerid = rentals[inflight[p].id].owner_id
              /\ notification'.renterid = rentals[inflight[p].id].renter_id
              /\ notification'.sender = inflight[p].requestor
        /\ (/\ Moved(p)
            /\ inflight[p].op = "transition_purchase"
            /\ response'.kind = "ok")
           => /\ notification'.ownerid = purchases[inflight[p].id].owner_id
              /\ notification'.renterid = purchases[inflight[p].id].buyer_id
              /\ notification'.sender = inflight[p].requestor
    ]_vars

\* C36: an item whose availability is sold stays sold: no creation and no
\* transition on a Rental or a Purchase of the item changes its availability
\* to another value.
C36_SoldIsFinal ==
    [][\A item_id \in Items :
          availability[item_id] = "sold" => availability'[item_id] = "sold"
    ]_vars

\* The identities that may not request an action on a record with that
\* owner and that renter or buyer.
Outsiders ==
    [action \in Actions |-> [owner_id \in Users |-> [counterparty_id \in Users |->
        {u \in Users : ~MayAct(action, u, owner_id, counterparty_id)}]]]

\* C37: a transition request on a stored record, named with its item, that
\* is wrong on both counts, its (action, status) pair being no edge of the
\* table and its requestor not one the action admits, is answered
\* InvalidTransition (400), not Forbidden (a step with another answer is the
\* outcome of no such request); and Forbidden is answered only to requests
\* whose (action, status) pair is an edge (a Forbidden step is the outcome
\* of no request on an illegal pair).
C37_InvalidTransitionBeforeForbidden ==
    [][\A p \in Procs :
        Arrives(p) =>
        /\ (/\ FirstStep("transition_rental")
            /\ ~(response'.kind = "InvalidTransition" /\ response'.statusCode = 400)) =>
             \A rental_id \in DOMAIN rentals :
                 \A action \in IllegalRentalActions[rentals[rental_id].status] :
                     \A u \in Outsiders[action][rentals[rental_id].owner_id]
                                        [rentals[rental_id].renter_id] :
                         ~rental_transition(p, rentals[rental_id].item_id,
                                            rental_id, action, u)
        /\ (response'.op = "transition_rental" /\ response'.kind = "Forbidden") =>
             \A rental_id \in DOMAIN rentals :
                 \A action \in IllegalRentalActions[rentals[rental_id].status] :
                     \A u \in Users :
                         ~rental_transition(p, rentals[rental_id].item_id,
                                            rental_id, action, u)
        /\ (/\ FirstStep("transition_purchase")
            /\ ~(response'.kind = "InvalidTransition" /\ response'.statusCode = 400)) =>
             \A purchase_id \in DOMAIN purchases :
                 \A action \in IllegalPurchaseActions[purchases[purchase_id].status] :
                     \A u \in Outsiders[action][purchases[purchase_id].owner_id]
                                        [purchases[purchase_id].buyer_id] :
                         ~purchase_transition(p, purchases[purchase_id].item_id,
                                              purchase_id, action, u)
        /\ (response'.op = "transition_purchase" /\ response'.kind = "Forbidden") =>
             \A purchase_id \in DOMAIN purchases :
                 \A action \in IllegalPurchaseActions[purchases[purchase_id].status] :
                     \A u \in Users :
                         ~purchase_transition(p, purchases[purchase_id].item_id,
                                              purchase_id, action, u)
    ]_vars

\* C37 happens: a transition of the only Rental, which is completed and so
\* has no legal action left for anyone, was refused with InvalidTransition.
C37_Witness ==
    /\ response.op = "transition_rental"
    /\ response.kind = "InvalidTransition"
    /\ response.statusCode = 400
    /\ DOMAIN rentals = {1}
    /\ rentals[1].status = "completed"
    /\ connection = "closed"

\* C38: no step of a create_rental or create_purchase request, whatever its
\* outcome, changes an item's availability or sends a write to the
\* catalogue, so that, requests being handled one after the other, the item
\* of the new record is still available when a creation is answered 200; an
\* availability changes only in the PATCH of a transition.
C38_CreationKeepsAvailability ==
    [][/\ \A p \in Procs :
            (\/ inflight[p] = Idle /\ inflight'[p].op \in Creations
             \/ inflight[p].op \in Creations /\ Moved(p))
            => /\ availability' = availability
               /\ availWrite' = NoWrite
               /\ response'.kind = "ok"
                     => availability'[inflight[p].item_id] = "available"
       /\ response'.op \in Creations =>
            /\ availability' = availability
            /\ availWrite' = NoWrite
       /\ availability' # availability =>
            \E p \in Procs :
                /\ Moved(p)
                /\ inflight[p].op \in Transitions
                /\ inflight[p].pc = "patch"
    ]_vars

\* C38 happens: the first offer on item 1, a Purchase, was created and the
\* item is still available.
C38_Witness ==
    /\ response.op = "create_purchase"
    /\ response.kind = "ok"
    /\ DOMAIN rentals = {}
    /\ DOMAIN purchases = {1}
    /\ purchases[1].status = "offered"
    /\ purchases[1].item_id = 1
    /\ availability[1] = "available"
    /\ availWrite = NoWrite

\* The outcomes a creation request is meant to end with.
DefinedCreationOutcomes ==
    {"ok", "Unauthorized", "SelfDealing", "ItemNotAvailable", "Conflict",
     "InternalFailure"}

\* C39: a create_rental or create_purchase request with a valid credential
\* ends with one of the defined outcomes, whatever the item's availability
\* and however the store answers: it never ends without a response.
C39_CreationAlwaysAnswers ==
    [][/\ (FirstCreationStep /\ response'.kind \notin DefinedCreationOutcomes) =>
            \A p \in Procs, item_id \in Items, u \in Users :
                (/\ Arrives(p)
                 /\ \/ rental_admission(p, item_id, u)
                    \/ purchase_admission(p, item_id, u))
                => inflight'[p] # Idle
       /\ \A p \in Procs :
            (/\ Moved(p)
             /\ inflight[p].op \in Creations
             /\ inflight'[p] = Idle)
            => response'.kind \in DefinedCreationOutcomes
    ]_vars

====
